---- MODULE Spec2Model ----
(***************************************************************************)
(* Model of the mapping engine of niklos5/anyapi: path evaluation, schema  *)
(* fingerprinting, target-schema flattening, mapping-spec repair and       *)
(* validation, the mapping executor, the auto-mapper and the agent         *)
(* refinement loop.                                                        *)
(*                                                                         *)
(* Representation.                                                         *)
(*  - A Python str is a sequence of symbols.  The punctuation the code     *)
(*    inspects ("$", ".", "[", "]", "*") is one symbol each; an identifier *)
(*    or a literal word ("items", "id", "USD") is one symbol.  The         *)
(*    identifiers used are prefix-free, so startswith/endswith/replace/    *)
(*    split/sorted on symbols agree with the same operations on chars.     *)
(*  - A JSON value is a record [t, v]: t is the type tag, v the content.   *)
(*    A dict is an insertion-ordered sequence of <<key, value>> pairs.     *)
(*  - Python object identity of dicts is modelled with a store: a dict     *)
(*    lives at exactly one location of the store, and every other          *)
(*    reference to it is a value [t |-> "ref", v |-> location].            *)
(***************************************************************************)
EXTENDS Integers, Sequences, FiniteSets, TLC

VARIABLES
    pc,               \* position of the caller in the operation under way
    payload,          \* the payload as the caller passed it
    heap,             \* the dicts reachable by the executor (the payload's first)
    root,             \* the payload as a heap value
    mapping_spec,     \* the mapping spec argument (MappingExecutor.mapping_spec)
    target_paths,     \* the canonical target paths argument
    canonical_paths,  \* MappingExecutor._canonical_paths
    result,           \* what the operation returned: [err, val]
    target_schema,    \* the target schema argument
    mapping_agent,    \* the mapping_agent options argument
    environ,          \* the process environment: [enabled, max, model]
    agent_options,    \* what _parse_mapping_agent_options returned
    current_mapping,  \* current_mapping of _generate_mapping_with_agent
    aliased,          \* the mapping at hand is the caller's mapping_spec object
    iteration,        \* refinement iterations completed
    issues,           \* the last issue summary
    invoke_count,     \* calls of _invoke_bedrock that reached the model
    raw_texts,        \* what those calls returned, in order
    roaster_mapping,  \* what _prepare_roaster_mapping / repair returned
    repairs,          \* the repairs reported by the last repair_mapping_spec
    validation_errors, \* what validate_mapping_spec returned
    allowed_targets,  \* the allowed_targets argument of repair_mapping_spec
    request,          \* the request an endpoint handler was called with
    jobs,             \* the jobs table of the storage: job id -> record
    invocations       \* asynchronous invocations of the Lambda in flight

vars == <<pc, payload, heap, root, mapping_spec, target_paths, canonical_paths, result,
          target_schema, mapping_agent, environ, agent_options, current_mapping, aliased,
          iteration, issues, invoke_count, raw_texts, roaster_mapping, repairs,
          validation_errors, allowed_targets, request, jobs, invocations>>

execVars == <<pc, payload, heap, root, mapping_spec, target_paths, canonical_paths, result>>

execVarsButSpec == <<payload, heap, root, target_paths, canonical_paths, result>>

agentVars == <<target_schema, mapping_agent, environ, agent_options, current_mapping,
               aliased, iteration, issues, invoke_count, raw_texts>>

repairVars == <<roaster_mapping, repairs, validation_errors, allowed_targets>>

serviceVars == <<request, jobs, invocations>>

----------------------------------------------------------------------------
(* Python str operations on symbol sequences *)

StartsWith(s, p) == Len(s) >= Len(p) /\ SubSeq(s, 1, Len(p)) = p

EndsWith(s, p) == Len(s) >= Len(p) /\ SubSeq(s, Len(s) - Len(p) + 1, Len(s)) = p

Drop(s, n) == SubSeq(s, n + 1, Len(s))

DropLast(s, n) == SubSeq(s, 1, Len(s) - n)

Contains(s, p) == \E i \in 1..(Len(s) - Len(p) + 1) : SubSeq(s, i, i + Len(p) - 1) = p

\* s.replace(old, ""): leftmost, non-overlapping, one pass
RECURSIVE Remove(_, _)
Remove(s, old) ==
    IF s = <<>> THEN <<>>
    ELSE IF StartsWith(s, old) THEN Remove(Drop(s, Len(old)), old)
    ELSE <<Head(s)>> \o Remove(Tail(s), old)

RECURSIVE SplitFrom(_, _)
SplitFrom(s, cur) ==
    IF s = <<>> THEN <<cur>>
    ELSE IF Head(s) = "." THEN <<cur>> \o SplitFrom(Tail(s), <<>>)
    ELSE SplitFrom(Tail(s), Append(cur, Head(s)))

\* s.split(".")
SplitDots(s) == SplitFrom(s, <<>>)

BR == <<"[", "]">>

BRSTAR == <<"[", "*", "]">>

DOLLARDOT == <<"$", ".">>

DOLLAR == <<"$">>

----------------------------------------------------------------------------
(* JSON values *)

Null == [t |-> "null", v |-> 0]

Str(s) == [t |-> "str", v |-> s]

Num(n) == [t |-> "num", v |-> n]

Bool(b) == [t |-> "bool", v |-> b]

List(xs) == [t |-> "list", v |-> xs]

Obj(kvs) == [t |-> "obj", v |-> kvs]

EmptyObj == Obj(<<>>)

IsNone(x) == x.t = "null"

IsStr(x) == x.t = "str"

IsList(x) == x.t = "list"

\* isinstance(x, dict): an owned dict or a reference to one
IsDict(x) == x.t \in {"obj", "ref"}

HasKey(d, k) == \E i \in 1..Len(d.v) : d.v[i][1] = k

KeyIndex(d, k) == CHOOSE i \in 1..Len(d.v) : d.v[i][1] = k

\* d.get(k)
Get(d, k) == IF HasKey(d, k) THEN d.v[KeyIndex(d, k)][2] ELSE Null

\* d[k] = x: an existing key keeps its position
Put(d, k, x) ==
    IF HasKey(d, k)
    THEN [d EXCEPT !.v[KeyIndex(d, k)] = <<k, x>>]
    ELSE [d EXCEPT !.v = Append(@, <<k, x>>)]

\* Python truthiness
Truthy(x) ==
    CASE x.t = "null" -> FALSE
      [] x.t = "bool" -> x.v
      [] x.t = "num" -> x.v # 0
      [] x.t \in {"str", "list", "obj"} -> x.v # <<>>
      [] OTHER -> TRUE

\* dict == dict ignores insertion order
RECURSIVE PyEq(_, _)
PyEq(a, b) ==
    IF a.t # b.t THEN FALSE
    ELSE IF a.t = "obj"
    THEN /\ Len(a.v) = Len(b.v)
         /\ \A i \in 1..Len(a.v) :
                /\ HasKey(b, a.v[i][1])
                /\ PyEq(a.v[i][2], Get(b, a.v[i][1]))
    ELSE IF a.t = "list"
    THEN /\ Len(a.v) = Len(b.v)
         /\ \A i \in 1..Len(a.v) : PyEq(a.v[i], b.v[i])
    ELSE a = b

\* d.update(e)
RECURSIVE Update(_, _)
Update(d, e) ==
    IF e.v = <<>> THEN d
    ELSE Update(Put(d, e.v[1][1], e.v[1][2]), Obj(Tail(e.v)))

----------------------------------------------------------------------------
(* Order of str values: sorted() compares code points; SymbolOrder lists   *)
(* the symbols that occur in sorted strings in code-point order.           *)

SymbolOrder ==
    <<"$", "*", ".", "[", "]", "a", "b", "c", "data", "feed", "g", "h", "id", "items", "k",
      "meta", "name", "o", "productId", "records", "sku", "source", "tags", "title", "x",
      "y">>

Rank(sym) == CHOOSE i \in 1..Len(SymbolOrder) : SymbolOrder[i] = sym

RECURSIVE StrLess(_, _)
StrLess(a, b) ==
    IF b = <<>> THEN FALSE
    ELSE IF a = <<>> THEN TRUE
    ELSE IF Head(a) = Head(b) THEN StrLess(Tail(a), Tail(b))
    ELSE Rank(Head(a)) < Rank(Head(b))

\* sorted(S) for a set of strings
RECURSIVE SortedStrs(_)
SortedStrs(S) ==
    IF S = {} THEN <<>>
    ELSE LET m == CHOOSE x \in S : \A y \in S \ {x} : StrLess(x, y)
         IN <<m>> \o SortedStrs(S \ {m})

KeySet(d) == {d.v[i][1] : i \in 1..Len(d.v)}

----------------------------------------------------------------------------
(* schema_fingerprint.py *)

DescribePrimitive(value) ==
    CASE value.t = "null" -> <<"null">>
      [] value.t = "bool" -> <<"boolean">>
      [] value.t = "num" -> <<"number">>
      [] value.t = "str" -> <<"string">>
      [] OTHER -> <<"unknown">>

\* max_items_per_array as passed by mapping_service
MaxItemsPerArray == 10

ArrayOf(ty) == <<"array<">> \o ty \o <<">">>

\* _extract_schema; the list branch folds ExtractItem over the inspected
\* elements with the loop's locals in acc = [schema, seen, prim, cont]
RECURSIVE ExtractSchema(_, _), ExtractDict(_, _, _), ExtractItems(_, _, _)
ExtractDict(kvs, prefix, schema) ==
    IF kvs = <<>> THEN schema
    ELSE ExtractDict(Tail(kvs), prefix,
                     Update(schema,
                            ExtractSchema(kvs[1][2],
                                          IF prefix # <<>> THEN prefix \o <<".">> \o kvs[1][1]
                                          ELSE kvs[1][1])))

ExtractItems(items, array_prefix, acc) ==
    IF items = <<>> THEN acc
    ELSE ExtractItems(Tail(items), array_prefix,
            IF Head(items).t = "null" THEN acc
            ELSE IF Head(items).t \in {"obj", "list"}
            THEN [acc EXCEPT !.seen = TRUE,
                             !.cont = IF @ # <<>> THEN @
                                      ELSE IF Head(items).t = "obj" THEN <<"object">>
                                      ELSE <<"array">>,
                             !.schema = Update(@, ExtractSchema(Head(items), array_prefix))]
            ELSE [acc EXCEPT !.seen = TRUE,
                             !.prim = IF @ = <<>> THEN DescribePrimitive(Head(items)) ELSE @,
                             !.schema = Put(@, array_prefix,
                                            Str(ArrayOf(IF acc.prim = <<>>
                                                        THEN DescribePrimitive(Head(items))
                                                        ELSE acc.prim)))])

\* the entry of the array itself, written after the loop over its elements
ArrayEntry(acc, array_prefix) ==
    IF ~acc.seen
    THEN Put(acc.schema, array_prefix, Str(ArrayOf(<<"null">>)))
    ELSE IF acc.prim = <<>>
    THEN Put(acc.schema, array_prefix,
             Str(ArrayOf(IF acc.cont # <<>> THEN acc.cont ELSE <<"unknown">>)))
    ELSE acc.schema

ExtractSchema(obj, prefix) ==
    IF obj.t = "obj"
    THEN IF obj.v = <<>> THEN Obj(<< <<prefix, Str(<<"object (empty)">>)>> >>)
         ELSE ExtractDict(obj.v, prefix, EmptyObj)
    ELSE IF obj.t = "list"
    THEN IF obj.v = <<>> THEN Obj(<< <<prefix \o BR, Str(<<"array (empty)">>)>> >>)
         ELSE ArrayEntry(ExtractItems(SubSeq(obj.v, 1, IF Len(obj.v) < MaxItemsPerArray
                                                       THEN Len(obj.v)
                                                       ELSE MaxItemsPerArray),
                                      prefix \o BR,
                                      [schema |-> EmptyObj, seen |-> FALSE,
                                       prim |-> <<>>, cont |-> <<>>]),
                         prefix \o BR)
    ELSE Obj(<< <<prefix, Str(DescribePrimitive(obj))>> >>)

\* a dict left in the order its keys were inserted
InsertionOrderDict(schema) == schema

\* dict(sorted(schema.items()))
SortedItems(schema, order) ==
    Obj([i \in 1..Len(order) |-> <<order[i], Get(schema, order[i])>>])

SortedDict(schema) == SortedItems(schema, SortedStrs(KeySet(schema)))

\* SchemaStructureExtractor.extract: keys re-inserted in sorted order
Extract(pl) == SortedDict(ExtractSchema(pl, DOLLAR))

----------------------------------------------------------------------------
(* mapping_executor.flatten_target_schema and the target-path helpers of   *)
(* mapping_service.py                                                      *)

RECURSIVE FlattenTargetSchema(_, _), FlattenDict(_, _, _)
FlattenDict(kvs, prefix, flattened) ==
    IF kvs = <<>> THEN flattened
    ELSE LET new_prefix == IF prefix # <<>> THEN prefix \o <<".">> \o kvs[1][1]
                           ELSE kvs[1][1]
         IN FlattenDict(Tail(kvs), prefix,
                        Update(flattened, FlattenTargetSchema(kvs[1][2], new_prefix)))

FlattenTargetSchema(schema, prefix) ==
    IF schema.t = "obj"
    THEN IF schema.v = <<>> THEN Obj(<< <<prefix, Str(<<"object">>)>> >>)
         ELSE FlattenDict(schema.v, prefix, EmptyObj)
    ELSE IF schema.t = "list"
    THEN IF schema.v = <<>> THEN Obj(<< <<prefix \o BR, Str(<<"array">>)>> >>)
         ELSE FlattenTargetSchema(schema.v[1], prefix \o BR)
    ELSE Obj(<< <<prefix, schema>> >>)

ExtractTargetPaths(tschema) ==
    IF tschema.t = "obj"
       /\ \E i \in 1..Len(tschema.v) : StartsWith(tschema.v[i][1], DOLLAR)
    THEN tschema
    ELSE IF tschema.t \in {"obj", "list"}
    THEN FlattenTargetSchema(tschema, DOLLAR)
    ELSE EmptyObj

NormalizeTargetPath(path) ==
    LET stripped == IF StartsWith(path, DOLLARDOT) THEN Drop(path, 2)
                    ELSE IF StartsWith(path, DOLLAR) THEN Drop(path, 1)
                    ELSE path
    IN Remove(Remove(stripped, BRSTAR), BR)

DOTITEMSBR == <<".", "items", "[", "]">>

\* [f(x) for x in xs if p(x)] over the keys of a dict, in order
RECURSIVE TargetPathsOf(_)
TargetPathsOf(kvs) ==
    IF kvs = <<>> THEN <<>>
    ELSE (IF Contains(kvs[1][1], DOTITEMSBR)
          THEN <<NormalizeTargetPath(kvs[1][1])>> ELSE <<>>)
         \o TargetPathsOf(Tail(kvs))

\* the target_paths list built by _prepare_roaster_mapping and execute_mapping
TargetPaths(tschema) == TargetPathsOf(ExtractTargetPaths(tschema).v)

SeqToSet(xs) == {xs[i] : i \in 1..Len(xs)}

----------------------------------------------------------------------------
(* Keys of the mapping spec *)

K_mappings == <<"mappings">>

K_items == <<"items">>

K_path == <<"path">>

K_map == <<"map">>

K_source == <<"source">>

K_defaults == <<"defaults">>

K_broadcast == <<"broadcast">>

K_version == <<"version">>

K_transform == <<"transform">>

K_match == <<"match">>

K_required == <<"required">>

K_default == <<"default">>

K_partner_id == <<"partner_id">>

K_target == <<"target">>

\* {"source": src}
Leaf(src) == Obj(<< <<K_source, src>> >>)

\* the dict literal returned by _auto_mapping_spec and
\* _build_roaster_mapping_from_list
Spec4Of(path, map, broadcast, defaults) ==
    Obj(<< <<K_version, Str(<<"1.0">>)>>,
           <<K_defaults, defaults>>,
           <<K_broadcast, broadcast>>,
           <<K_mappings, Obj(<< <<K_items, Obj(<< <<K_path, path>>, <<K_map, map>> >>)>> >>)>> >>)

FEED_LEVEL_PREFIXES ==
    { <<"$", ".", "feed_metadata">>, <<"$", ".", "meta">>, <<"$", ".", "source">>,
      <<"$", ".", "partner">>, <<"$", ".", "schema_version">>,
      <<"$", ".", "default_operation_type">> }

StartsWithFeedPrefix(s) == \E p \in FEED_LEVEL_PREFIXES : StartsWith(s, p)

----------------------------------------------------------------------------
(* roaster_mapping_validator.py: every error is one entry <<kind>> \o field *)

IsArrayPath(path) == IsStr(path) /\ (EndsWith(path.v, BR) \/ EndsWith(path.v, BRSTAR))

TargetHasIllegalTokens(target_field) ==
    Contains(target_field, BR) \/ Contains(target_field, DOLLAR)

\* the errors of the `for source in sources` loop of _validate_map_block
RECURSIVE FeedErrors(_, _)
FeedErrors(sources, target_field) ==
    IF sources = <<>> THEN <<>>
    ELSE (IF IsStr(Head(sources)) /\ StartsWithFeedPrefix(Head(sources).v)
          THEN << <<"references feed metadata">> \o target_field >> ELSE <<>>)
         \o FeedErrors(Tail(sources), target_field)

RECURSIVE ValidateMapBlock(_, _)
ValidateMapBlock(kvs, in_item_context) ==
    IF kvs = <<>> THEN <<>>
    ELSE LET target_field == kvs[1][1]
             spec == kvs[1][2]
             e1 == IF TargetHasIllegalTokens(target_field)
                   THEN << <<"target must not contain $ or []">> \o target_field >>
                   ELSE <<>>
             sources == Get(spec, K_source)
             e2 == IF spec.t # "obj"
                   THEN << <<"must be an object">> \o target_field >>
                   ELSE IF HasKey(spec, K_path) /\ HasKey(spec, K_map)
                   THEN (IF ~IsArrayPath(Get(spec, K_path))
                         THEN << <<"path must be a JSONPath array">> \o target_field >>
                         ELSE <<>>)
                        \o (IF Get(spec, K_map).t # "obj"
                            THEN << <<"map must be an object">> \o target_field >>
                            ELSE ValidateMapBlock(Get(spec, K_map).v, TRUE))
                   ELSE IF IsNone(sources) THEN <<>>
                   ELSE IF ~(IsStr(sources) \/ IsList(sources))
                   THEN << <<"source must be a string or list">> \o target_field >>
                   ELSE IF in_item_context
                   THEN FeedErrors(IF IsStr(sources) THEN <<sources>> ELSE sources.v,
                                   target_field)
                   ELSE <<>>
         IN e1 \o e2 \o ValidateMapBlock(Tail(kvs), in_item_context)

\* the `for target_field in section_obj.keys()` loop of validate_mapping_spec
RECURSIVE SectionKeyErrors(_)
SectionKeyErrors(kvs) ==
    IF kvs = <<>> THEN <<>>
    ELSE (IF TargetHasIllegalTokens(kvs[1][1])
          THEN << <<"section target must not contain $ or []">> \o kvs[1][1] >>
          ELSE <<>>)
         \o SectionKeyErrors(Tail(kvs))

SectionErrors(spec, section) ==
    LET section_obj == Get(spec, section)
    IN IF IsNone(section_obj) THEN <<>>
       ELSE IF section_obj.t # "obj" THEN << <<"section must be an object">> \o section >>
       ELSE SectionKeyErrors(section_obj.v)

ValidateMappingSpec(spec) ==
    IF spec.t # "obj" THEN << <<"mapping_spec must be a JSON object">> >>
    ELSE LET mappings == Get(spec, K_mappings) IN
    IF mappings.t # "obj" THEN << <<"mapping_spec.mappings must be an object">> >>
    ELSE LET items == Get(mappings, K_items) IN
    IF items.t # "obj" THEN << <<"mapping_spec.mappings.items must be an object">> >>
    ELSE LET e1 == IF ~IsArrayPath(Get(items, K_path))
                   THEN << <<"mappings.items.path must be a JSONPath array">> >>
                   ELSE <<>>
             items_map == Get(items, K_map)
         IN IF items_map.t # "obj"
            THEN e1 \o << <<"mappings.items.map must be an object">> >>
            ELSE e1 \o ValidateMapBlock(items_map.v, TRUE)
                    \o SectionErrors(spec, K_broadcast)
                    \o SectionErrors(spec, K_defaults)

----------------------------------------------------------------------------
(* roaster_mapping_repair.py.  allowed_targets is [given, set]: given is   *)
(* FALSE for None.  A text is [t |-> "text", v |-> chunks]; a chunk is      *)
(* prose without braces, the serialisation of a JSON value ("json"), or a  *)
(* brace that opens no parseable object ("broken").                        *)

NoTargets == [given |-> FALSE, set |-> {}]

Allowed(S) == [given |-> TRUE, set |-> S]

Text(chunks) == [t |-> "text", v |-> chunks]

Prose(s) == [t |-> "prose", v |-> s]

\* json.dumps(value)
JsonDumps(value) == [t |-> "json", v |-> value]

\* extract_first_json_object: the first chunk that opens a brace decides
RECURSIVE ExtractFirstJsonObject(_)
ExtractFirstJsonObject(chunks) ==
    IF chunks = <<>> THEN Null
    ELSE IF Head(chunks).t = "prose" THEN ExtractFirstJsonObject(Tail(chunks))
    ELSE IF Head(chunks).t = "json" /\ Head(chunks).v.t = "obj" THEN Head(chunks).v
    ELSE Null

\* _coerce_mapping_spec: [spec, repairs]
CoerceMappingSpec(mapping_spec_or_text) ==
    IF mapping_spec_or_text.t = "obj"
    THEN [spec |-> mapping_spec_or_text, repairs |-> <<>>]
    ELSE IF mapping_spec_or_text.t = "text"
    THEN LET extracted == ExtractFirstJsonObject(mapping_spec_or_text.v)
         IN IF IsNone(extracted)
            THEN [spec |-> Null, repairs |-> << <<"Failed to extract JSON object">> >>]
            ELSE [spec |-> extracted, repairs |-> << <<"Extracted JSON object">> >>]
    ELSE [spec |-> Null, repairs |-> <<>>]

NormalizeTargetKey(key) == Remove(key, BR)

\* _normalize_target_key_dict: [out, repairs]
RECURSIVE NormalizeTargetKeyDict(_, _)
NormalizeTargetKeyDict(kvs, acc) ==
    IF kvs = <<>> THEN acc
    ELSE LET k == kvs[1][1]
             nk == NormalizeTargetKey(k)
         IN NormalizeTargetKeyDict(Tail(kvs),
                [out |-> Put(acc.out, nk, kvs[1][2]),
                 repairs |-> acc.repairs \o
                    (IF nk # k THEN << <<"Normalized target key">> \o k >> ELSE <<>>)])

\* a test that takes every string for a path
AnyStringIsJsonpath(value) == IsStr(value)

LooksLikeJsonpath(value) == IsStr(value) /\ StartsWith(value.v, DOLLAR)

ExpressionTokens == {" + ", " - ", " * ", " / ", "'", "\"", "(", ")"}

LooksLikeExpression(value) ==
    /\ IsStr(value)
    /\ StartsWith(value.v, DOLLAR)
    /\ \E i \in 1..Len(value.v) : value.v[i] \in ExpressionTokens

\* [x for x in xs if keep(x)] for the three filters of _repair_leaf_mapping
RECURSIVE DropExpressions(_), FeedSources(_), NotIn(_, _)
DropExpressions(xs) ==
    IF xs = <<>> THEN <<>>
    ELSE (IF LooksLikeExpression(Head(xs)) THEN <<>> ELSE <<Head(xs)>>)
         \o DropExpressions(Tail(xs))

FeedSources(xs) ==
    IF xs = <<>> THEN <<>>
    ELSE (IF IsStr(Head(xs)) /\ StartsWithFeedPrefix(Head(xs).v) THEN <<Head(xs)>> ELSE <<>>)
         \o FeedSources(Tail(xs))

NotIn(xs, ys) ==
    IF xs = <<>> THEN <<>>
    ELSE (IF \E i \in 1..Len(ys) : PyEq(ys[i], Head(xs)) THEN <<>> ELSE <<Head(xs)>>)
         \o NotIn(Tail(xs), ys)

RECURSIVE CountExpressions(_)
CountExpressions(xs) ==
    IF xs = <<>> THEN 0
    ELSE (IF LooksLikeExpression(Head(xs)) THEN 1 ELSE 0) + CountExpressions(Tail(xs))

\* _repair_leaf_mapping from `if cleaned_sources:` on
MoveConstant(target_field, spec, broadcast, defaults, notes, cleaned_sources) ==
    LET constant == /\ cleaned_sources # <<>>
                    /\ IsStr(cleaned_sources[1])
                    /\ ~LooksLikeJsonpath(cleaned_sources[1])
    IN [leaf |-> Put(spec, K_source,
                     IF constant \/ cleaned_sources = <<>> THEN Null
                     ELSE IF Len(cleaned_sources) = 1 THEN cleaned_sources[1]
                     ELSE List(cleaned_sources)),
        broadcast |-> broadcast,
        defaults |-> IF constant THEN Put(defaults, target_field, cleaned_sources[1])
                     ELSE defaults,
        repairs |-> notes \o
                    (IF constant
                     THEN << <<"Moved constant source into defaults">> \o target_field >>
                     ELSE <<>>)]

\* _repair_leaf_mapping from `if feed_sources:` on
MoveFeedSources(target_field, spec, broadcast, defaults, notes, cleaned_sources, feed_sources) ==
    LET moved == feed_sources # <<>> /\ ~HasKey(broadcast, target_field)
    IN MoveConstant(target_field, spec,
                    IF moved
                    THEN Put(broadcast, target_field, Obj(<< <<K_source, feed_sources[1]>> >>))
                    ELSE broadcast,
                    defaults,
                    notes \o
                    (IF moved
                     THEN << <<"Moved feed-level source to broadcast">> \o target_field >>
                     ELSE <<>>),
                    IF feed_sources # <<>> THEN NotIn(cleaned_sources, feed_sources)
                    ELSE cleaned_sources)

\* _repair_leaf_mapping: [leaf, broadcast, defaults, repairs]
RepairLeafMapping(target_field0, spec, broadcast, defaults, in_item_context) ==
    LET target_field == NormalizeTargetKey(target_field0)
        r0 == IF target_field # target_field0
              THEN << <<"Normalized target key">> \o target_field0 >> ELSE <<>>
        sources == Get(spec, K_source)
        source_list == IF IsStr(sources) THEN <<sources>> ELSE sources.v
    IN IF IsNone(sources) \/ ~(IsStr(sources) \/ IsList(sources))
       THEN [leaf |-> spec, broadcast |-> broadcast, defaults |-> defaults, repairs |-> r0]
       ELSE MoveFeedSources(target_field, spec, broadcast, defaults,
                            r0 \o [i \in 1..CountExpressions(source_list) |->
                                      <<"Removed expression source">> \o target_field],
                            DropExpressions(source_list),
                            IF in_item_context THEN FeedSources(DropExpressions(source_list))
                            ELSE <<>>)

\* `out[normalized_target] = new_spec` with the repaired nested map
KeepNested(acc, normalized_target, spec, nested) ==
    [out |-> Put(acc.out, normalized_target, Put(spec, K_map, nested.out)),
     broadcast |-> nested.broadcast,
     defaults |-> nested.defaults,
     repairs |-> acc.repairs \o nested.repairs]

\* `out[normalized_target] = repaired_leaf`
KeepLeaf(acc, normalized_target, leaf) ==
    [out |-> Put(acc.out, normalized_target, leaf.leaf),
     broadcast |-> leaf.broadcast,
     defaults |-> leaf.defaults,
     repairs |-> acc.repairs \o leaf.repairs]

\* _repair_map_block: acc and the value are [out, broadcast, defaults, repairs]
RECURSIVE RepairMapBlock(_, _, _, _)
RepairMapBlock(kvs, acc, allowed, in_item_context) ==
    IF kvs = <<>> THEN acc
    ELSE
    LET target_field == kvs[1][1]
        spec == kvs[1][2]
        normalized_target == NormalizeTargetKey(target_field)
    IN RepairMapBlock(Tail(kvs),
          IF spec.t # "obj" THEN acc
          ELSE IF allowed.given /\ normalized_target \notin allowed.set
          THEN [acc EXCEPT !.repairs = Append(@, <<"Dropped unknown target field">>
                                                    \o target_field)]
          ELSE IF HasKey(spec, K_path) /\ HasKey(spec, K_map) /\ Get(spec, K_map).t = "obj"
          THEN KeepNested(acc, normalized_target, spec,
                          RepairMapBlock(Get(spec, K_map).v,
                                [out |-> EmptyObj, broadcast |-> acc.broadcast,
                                 defaults |-> acc.defaults, repairs |-> <<>>],
                                NoTargets, TRUE))
          ELSE KeepLeaf(acc, normalized_target,
                        RepairLeafMapping(normalized_target, spec, acc.broadcast,
                                          acc.defaults, in_item_context)),
          allowed, in_item_context)

\* a repair that adds no target
NoBackfill(targets, acc) == acc

\* the backfill loop `for target in sorted(allowed_targets)`: [out, repairs]
RECURSIVE Backfill(_, _)
Backfill(targets, acc) ==
    IF targets = <<>> THEN acc
    ELSE Backfill(Tail(targets),
            IF HasKey(acc.out, Head(targets)) THEN acc
            ELSE [out |-> Put(acc.out, Head(targets), Obj(<< <<K_source, Null>> >>)),
                  repairs |-> Append(acc.repairs,
                                     <<"Added missing target">> \o Head(targets))])

\* `if key not in mapping_spec or not isinstance(...): mapping_spec[key] = {}`
EnsureDict(sr, key, note) ==
    IF ~HasKey(sr.spec, key) \/ Get(sr.spec, key).t # "obj"
    THEN [spec |-> Put(sr.spec, key, EmptyObj), repairs |-> Append(sr.repairs, note)]
    ELSE sr

\* `mapping_spec[key], changed = _normalize_target_key_dict(mapping_spec[key])`
NormalizeSection(sr, key) ==
    LET n == NormalizeTargetKeyDict(Get(sr.spec, key).v, [out |-> EmptyObj, repairs |-> <<>>])
    IN [spec |-> Put(sr.spec, key, n.out), repairs |-> sr.repairs \o n.repairs]

\* `items["map"] = repaired_map` and the backfill of the allowed targets;
\* rb is what _repair_map_block returned and left in broadcast and defaults
Backfilled(sr, allowed, rb) ==
    LET bf == IF allowed.given /\ allowed.set # {}
              THEN Backfill(SortedStrs(allowed.set), [out |-> rb.out, repairs |-> <<>>])
              ELSE [out |-> rb.out, repairs |-> <<>>]
        mappings == Get(sr.spec, K_mappings)
    IN [spec |-> Put(Put(Put(sr.spec, K_defaults, rb.defaults), K_broadcast, rb.broadcast),
                     K_mappings,
                     Put(mappings, K_items, Put(Get(mappings, K_items), K_map, bf.out))),
        repairs |-> sr.repairs \o rb.repairs \o bf.repairs]

\* repair_mapping_spec from `mappings = mapping_spec.get("mappings")` on
RepairItems(sr, allowed) ==
    LET mappings == Get(sr.spec, K_mappings)
        items == Get(mappings, K_items)
        items_map == Get(items, K_map)
    IN IF mappings.t # "obj" THEN sr
       ELSE IF items.t # "obj" THEN sr
       ELSE IF items_map.t # "obj" THEN sr
       ELSE Backfilled(sr, allowed,
                       RepairMapBlock(items_map.v,
                            [out |-> EmptyObj, broadcast |-> Get(sr.spec, K_broadcast),
                             defaults |-> Get(sr.spec, K_defaults), repairs |-> <<>>],
                            allowed, TRUE))

\* repair_mapping_spec after _coerce_mapping_spec
RepairCoerced(co, allowed) ==
    IF IsNone(co.spec) THEN [spec |-> Null, repairs |-> co.repairs]
    ELSE RepairItems(
            NormalizeSection(
               NormalizeSection(
                  EnsureDict(EnsureDict(co, K_defaults, <<"Initialized missing defaults">>),
                             K_broadcast, <<"Initialized missing broadcast">>),
                  K_defaults),
               K_broadcast),
            allowed)

\* repair_mapping_spec: [spec, repairs]; a dict argument is repaired in
\* place, so the returned spec is also the argument's state after the call
RepairMappingSpec(mapping_spec_or_text, allowed) ==
    RepairCoerced(CoerceMappingSpec(mapping_spec_or_text), allowed)

----------------------------------------------------------------------------
(* The heap of the executor.  Every dict the executor can reach is a cell  *)
(* of the heap (a sequence of dicts) and is referred to by its address;    *)
(* lists are never modified by the executor and stay values.               *)

Ref(a) == [t |-> "ref", v |-> a]

IsRef(x) == x.t = "ref"

HGet(h, r, k) == Get(h[r.v], k)

HHas(h, r, k) == HasKey(h[r.v], k)

HPut(h, r, k, x) == [h EXCEPT ![r.v] = Put(@, k, x)]

\* a JSON value enters the heap: [heap, val]
RECURSIVE Load(_, _), LoadList(_, _, _), LoadDict(_, _, _)
Load(h, raw) ==
    IF raw.t = "obj"
    THEN LET a == Len(h) + 1
         IN [heap |-> LoadDict(Append(h, EmptyObj), a, raw.v), val |-> Ref(a)]
    ELSE IF raw.t = "list"
    THEN LET r == LoadList(h, raw.v, <<>>) IN [heap |-> r.heap, val |-> List(r.val)]
    ELSE [heap |-> h, val |-> raw]

LoadList(h, xs, acc) ==
    IF xs = <<>> THEN [heap |-> h, val |-> acc]
    ELSE LET r == Load(h, Head(xs)) IN LoadList(r.heap, Tail(xs), Append(acc, r.val))

LoadDict(h, a, kvs) ==
    IF kvs = <<>> THEN h
    ELSE LET r == Load(h, kvs[1][2])
         IN LoadDict([r.heap EXCEPT ![a] = Put(@, kvs[1][1], r.val)], a, Tail(kvs))

\* the JSON value a heap value stands for
RECURSIVE Resolve(_, _)
Resolve(h, x) ==
    IF x.t = "ref"
    THEN Obj([i \in 1..Len(h[x.v].v) |-> <<h[x.v].v[i][1], Resolve(h, h[x.v].v[i][2])>>])
    ELSE IF x.t = "list"
    THEN List([i \in 1..Len(x.v) |-> Resolve(h, x.v[i])])
    ELSE x

\* _clone_value: copy.deepcopy of a dict or list: [heap, val]
CloneValue(h, x) == IF x.t \in {"ref", "list"} THEN Load(h, Resolve(h, x))
                    ELSE [heap |-> h, val |-> x]

Raise(kind) == [t |-> "raise", v |-> kind]

IsRaise(x) == x.t = "raise"

----------------------------------------------------------------------------
(* roaster_mapping_executor.py *)

NormalizeCanonicalPath(path) ==
    LET n1 == IF StartsWith(path, DOLLARDOT) THEN Drop(path, 2)
              ELSE IF StartsWith(path, DOLLAR) THEN Drop(path, 1)
              ELSE path
        n2 == IF StartsWith(n1, <<"items", "[", "]", ".">>) THEN Drop(n1, 4)
              ELSE IF StartsWith(n1, <<"items", ".">>) THEN Drop(n1, 2)
              ELSE n1
    IN Remove(Remove(n2, BRSTAR), BR)

\* MappingExecutor.__init__: the _canonical_paths list
RECURSIVE CanonicalPaths(_)
CanonicalPaths(paths) ==
    IF paths = <<>> THEN <<>>
    ELSE (IF Head(paths) # <<>> THEN <<NormalizeCanonicalPath(Head(paths))>> ELSE <<>>)
         \o CanonicalPaths(Tail(paths))

\* the inner loop `for value in current` of _evaluate_path
RECURSIVE NextValues(_, _, _, _)
NextValues(h, current, key, is_array) ==
    IF current = <<>> THEN <<>>
    ELSE LET value == Head(current)
             candidate == IF IsRef(value) THEN HGet(h, value, key)
                          ELSE IF IsList(value) THEN value
                          ELSE Null
             picked == IF IsNone(candidate) THEN <<>>
                       ELSE IF is_array
                       THEN (IF IsList(candidate) THEN candidate.v ELSE <<>>)
                       ELSE <<candidate>>
         IN picked \o NextValues(h, Tail(current), key, is_array)

\* a walk that reads the first segment only
WalkFirstToken(h, current, tokens) ==
    NextValues(h, current, Head(tokens), FALSE)

\* the outer loop `for token in tokens` of _evaluate_path
RECURSIVE WalkTokens(_, _, _)
WalkTokens(h, current, tokens) ==
    IF tokens = <<>> THEN current
    ELSE LET token == Head(tokens)
             is_array == EndsWith(token, BR) \/ EndsWith(token, BRSTAR)
             key == IF EndsWith(token, BR) THEN DropLast(token, 2)
                    ELSE IF EndsWith(token, BRSTAR) THEN DropLast(token, 3)
                    ELSE token
         IN WalkTokens(h, NextValues(h, current, key, is_array), Tail(tokens))

\* _evaluate_path: the list of matches, or the TypeError
EvaluatePath(h, rootv, path) ==
    IF IsNone(path) THEN List(<<>>)
    ELSE IF ~IsStr(path) THEN Raise("TypeError")
    ELSE LET p == IF StartsWith(path.v, DOLLARDOT) THEN Drop(path.v, 2)
                  ELSE IF StartsWith(path.v, DOLLAR) THEN Drop(path.v, 1)
                  ELSE path.v
         IN IF p = <<>> THEN List(<<rootv>>)
            ELSE List(WalkTokens(h, <<rootv>>, SplitDots(p)))

Numerals == <<"0", "1", "2", "3", "4", "5", "6", "7", "8", "9">>

IsNumeral(s) == Len(s) = 1 /\ \E i \in 1..Len(Numerals) : Numerals[i] = s[1]

\* int(s) / float(s) of a numeral string
NumeralValue(s) == (CHOOSE i \in 1..Len(Numerals) : Numerals[i] = s[1]) - 1

\* str(val)
PyStr(val) ==
    CASE val.t = "str" -> val.v
      [] val.t = "num" /\ val.v \in 0..9 -> <<Numerals[val.v + 1]>>
      [] val.t = "bool" -> IF val.v THEN <<"True">> ELSE <<"False">>
      [] val.t = "null" -> <<"None">>
      [] OTHER -> <<"<repr>">>

\* val.strip().lower() for the boolean words
Lowered(s) ==
    IF s = <<"True">> \/ s = <<"TRUE">> THEN <<"true">>
    ELSE IF s = <<"False">> \/ s = <<"FALSE">> THEN <<"false">>
    ELSE s

\* _convert of _apply_transform; a conversion that raises yields None
Convert(h, val, transform) ==
    IF IsNone(val) THEN Null
    ELSE IF transform = Str(<<"to_float">>) \/ transform = Str(<<"to_int">>)
    THEN CASE val.t = "num" -> val
           [] val.t = "bool" -> Num(IF val.v THEN 1 ELSE 0)
           [] val.t = "str" /\ IsNumeral(val.v) -> Num(NumeralValue(val.v))
           [] OTHER -> Null
    ELSE IF transform = Str(<<"to_string">>) THEN Str(PyStr(val))
    ELSE IF transform = Str(<<"to_boolean">>)
    THEN CASE val.t = "bool" -> val
           [] val.t = "str" ->
                IF Lowered(val.v) \in {<<"true">>, <<"1">>, <<"yes">>, <<"y">>} THEN Bool(TRUE)
                ELSE IF Lowered(val.v) \in {<<"false">>, <<"0">>, <<"no">>, <<"n">>}
                THEN Bool(FALSE)
                ELSE Null
           [] val.t = "num" -> Bool(val.v # 0)
           [] val.t = "list" -> Bool(val.v # <<>>)
           [] OTHER -> Bool(h[val.v].v # <<>>)
    ELSE val

\* _apply_transform
ApplyTransform(h, value, transform) ==
    IF transform = Str(<<"ensure_array">>)
    THEN (IF IsList(value) THEN value
          ELSE IF IsNone(value) THEN List(<<>>) ELSE List(<<value>>))
    ELSE IF IsList(value)
    THEN List([i \in 1..Len(value.v) |-> Convert(h, value.v[i], transform)])
    ELSE Convert(h, value, transform)

\* _map of _apply_match
MatchOne(val, match_map) ==
    IF IsNone(val) THEN Get(match_map, K_default)
    ELSE IF HasKey(match_map, PyStr(val)) THEN Get(match_map, PyStr(val))
    ELSE Get(match_map, K_default)

\* _apply_match
ApplyMatch(value, match_map) ==
    IF IsList(value)
    THEN List([i \in 1..Len(value.v) |-> MatchOne(value.v[i], match_map)])
    ELSE MatchOne(value, match_map)

RECURSIVE NonNull(_)
NonNull(xs) ==
    IF xs = <<>> THEN <<>>
    ELSE (IF IsNone(Head(xs)) THEN <<>> ELSE <<Head(xs)>>) \o NonNull(Tail(xs))

\* what the loop `for path in sources` does with the matches of one path:
\* the value it breaks with, or what the rest of the loop finds
KeepFirst(values, rest) ==
    IF IsRaise(values) THEN values
    ELSE IF NonNull(values.v) = <<>> THEN rest
    ELSE IF Len(NonNull(values.v)) > 1 THEN List(NonNull(values.v))
    ELSE NonNull(values.v)[1]

\* the loop `for path in sources` of _evaluate_field
RECURSIVE FirstValue(_, _, _)
FirstValue(h, source, paths) ==
    IF paths = <<>> THEN Null
    ELSE KeepFirst(EvaluatePath(h, source, Head(paths)), FirstValue(h, source, Tail(paths)))

\* _evaluate_field from `if value is None` on
FieldValue(h, value, transform, match_map) ==
    IF IsRaise(value) \/ IsNone(value) THEN value
    ELSE IF ~Truthy(match_map)
    THEN (IF Truthy(transform) THEN ApplyTransform(h, value, transform) ELSE value)
    ELSE IF match_map.t # "obj" THEN Raise("AttributeError")
    ELSE ApplyMatch(IF Truthy(transform) THEN ApplyTransform(h, value, transform) ELSE value,
                    match_map)

\* _evaluate_field: the value, None, or the exception raised
EvaluateField(h, source, spec) ==
    LET sources == Get(spec, K_source)
    IN IF IsNone(sources) THEN Null
       ELSE IF ~(IsStr(sources) \/ IsList(sources)) THEN Raise("TypeError")
       ELSE FieldValue(h, FirstValue(h, source,
                                     IF IsStr(sources) THEN <<sources>> ELSE sources.v),
                       Get(spec, K_transform), Get(spec, K_match))

\* _assign_nested from the cursor on: the heap after the assignment
RECURSIVE AssignParts(_, _, _, _)
AssignParts(h, cursor, parts, value) ==
    IF Len(parts) = 1 THEN HPut(h, cursor, parts[1], value)
    ELSE LET part == Head(parts) IN
         IF ~HHas(h, cursor, part) \/ ~IsRef(HGet(h, cursor, part))
         THEN LET a == Len(h) + 1
              IN AssignParts(HPut(Append(h, EmptyObj), cursor, part, Ref(a)),
                             Ref(a), Tail(parts), value)
         ELSE AssignParts(h, HGet(h, cursor, part), Tail(parts), value)

AssignNested(h, target, dotted_path, value) ==
    AssignParts(h, target, SplitDots(dotted_path), value)

RECURSIVE GetParts(_, _, _)
GetParts(h, cursor, parts) ==
    IF parts = <<>> THEN cursor
    ELSE IF ~IsRef(cursor) \/ ~HHas(h, cursor, Head(parts)) THEN Null
    ELSE GetParts(h, HGet(h, cursor, Head(parts)), Tail(parts))

\* _get_nested
GetNested(h, data, dotted_path) == GetParts(h, data, SplitDots(dotted_path))

\* a fill that also gives up when an ancestor holds a scalar
RECURSIVE PathConflictsWithNonDict(_, _, _)
PathConflictsWithNonDict(h, cursor, parts) ==
    IF parts = <<>> THEN IsList(cursor)
    ELSE IF ~IsRef(cursor) THEN TRUE
    ELSE IF ~HHas(h, cursor, Head(parts)) THEN FALSE
    ELSE PathConflictsWithNonDict(h, HGet(h, cursor, Head(parts)), Tail(parts))

\* _path_conflicts_with_list
RECURSIVE PathConflictsWithList(_, _, _)
PathConflictsWithList(h, cursor, parts) ==
    IF parts = <<>> THEN IsList(cursor)
    ELSE IF IsList(cursor) THEN TRUE
    ELSE IF ~IsRef(cursor) THEN FALSE
    ELSE PathConflictsWithList(h, HGet(h, cursor, Head(parts)), Tail(parts))

\* _ensure_canonical_fields: the heap after the fill
RECURSIVE EnsureCanonicalFields(_, _, _)
EnsureCanonicalFields(h, target, paths) ==
    IF paths = <<>> THEN h
    ELSE LET path == Head(paths)
             h2 == IF path = <<>> THEN h
                   ELSE IF PathConflictsWithList(h, target, SplitDots(path)) THEN h
                   ELSE IF IsNone(GetNested(h, target, path))
                   THEN AssignNested(h, target, path, Null)
                   ELSE h
         IN IF h2 = <<>> THEN h2 ELSE EnsureCanonicalFields(h2, target, Tail(paths))

\* defaults assigned whatever the target holds
RECURSIVE OverwriteDefaults(_, _, _)
OverwriteDefaults(h, target, kvs) ==
    IF kvs = <<>> THEN h
    ELSE LET c == Load(h, kvs[1][2])
         IN OverwriteDefaults(AssignNested(c.heap, target, kvs[1][1], c.val), target, Tail(kvs))

\* _apply_defaults over the entries of defaults
RECURSIVE ApplyDefaults(_, _, _)
ApplyDefaults(h, target, kvs) ==
    IF kvs = <<>> THEN h
    ELSE LET h2 == IF IsNone(GetNested(h, target, kvs[1][1]))
                   THEN LET c == Load(h, kvs[1][2])
                        IN AssignNested(c.heap, target, kvs[1][1], c.val)
                   ELSE h
         IN ApplyDefaults(h2, target, Tail(kvs))

\* _apply_broadcast over the entries of broadcast_values
RECURSIVE ApplyBroadcast(_, _, _)
ApplyBroadcast(h, target, kvs) ==
    IF kvs = <<>> THEN h
    ELSE LET c == CloneValue(h, kvs[1][2])
         IN ApplyBroadcast(AssignNested(c.heap, target, kvs[1][1], c.val), target, Tail(kvs))

\* `if value is None and not required: continue` and the assignment
AssignValue(s, target, target_field, value, required) ==
    IF IsRaise(value) THEN [s EXCEPT !.err = value.v]
    ELSE IF IsNone(value) /\ ~required THEN s
    ELSE [s EXCEPT !.heap = AssignNested(s.heap, target, target_field, value)]

\* `target[target_field] = nested_items`, n being what the loop over the
\* elements left
AssignResults(s, target, target_field, n) ==
    IF n.err # "" THEN [s EXCEPT !.err = n.err]
    ELSE [s EXCEPT !.heap = AssignNested(n.heap, target, target_field, List(n.val))]

\* the nested item of one element joins nested_items; r is what
\* _apply_map_block left for it
Collected(n, r) ==
    [heap |-> r.heap, err |-> r.err, val |-> Append(n.val, Ref(Len(n.heap) + 1))]

RECURSIVE ApplyMapBlock(_, _, _, _), NestedItems(_, _, _), MapElements(_, _, _, _, _)
\* the nested branch of _apply_map_block for the elements the path matched
MapElements(s, target, target_field, nested_map, elements) ==
    IF IsRaise(elements) THEN [s EXCEPT !.err = elements.v]
    ELSE IF elements.v # <<>> /\ nested_map.t # "obj" THEN [s EXCEPT !.err = "AttributeError"]
    ELSE AssignResults(s, target, target_field,
                       NestedItems([heap |-> s.heap, err |-> "", val |-> <<>>],
                                   elements.v, nested_map.v))

\* _apply_map_block over the entries of map_block: [heap, err]; err is ""
\* or the exception that ended the call
ApplyMapBlock(s, source, kvs, target) ==
    IF kvs = <<>> \/ s.err # "" THEN s
    ELSE ApplyMapBlock(
            IF kvs[1][2].t # "obj" THEN s
            ELSE IF HasKey(kvs[1][2], K_path) /\ HasKey(kvs[1][2], K_map)
            THEN MapElements(s, target, kvs[1][1], Get(kvs[1][2], K_map),
                             EvaluatePath(s.heap, source, Get(kvs[1][2], K_path)))
            ELSE AssignValue(s, target, kvs[1][1], EvaluateField(s.heap, source, kvs[1][2]),
                             Truthy(Get(kvs[1][2], K_required))),
            source, Tail(kvs), target)

\* the loop `for element in elements` of _apply_map_block: [heap, err, val]
NestedItems(n, elements, nested_kvs) ==
    IF elements = <<>> \/ n.err # "" THEN n
    ELSE NestedItems(Collected(n, ApplyMapBlock([heap |-> Append(n.heap, EmptyObj), err |-> ""],
                                                Head(elements), nested_kvs,
                                                Ref(Len(n.heap) + 1))),
                     Tail(elements), nested_kvs)

\* _compute_broadcast over the entries of broadcast_spec: [heap, err]
RECURSIVE ComputeBroadcast(_, _, _, _)
ComputeBroadcast(s, rootv, kvs, results) ==
    IF kvs = <<>> \/ s.err # "" THEN s
    ELSE ComputeBroadcast(
            IF kvs[1][2].t # "obj" THEN s
            ELSE AssignValue(s, results, kvs[1][1], EvaluateField(s.heap, rootv, kvs[1][2]),
                             FALSE),
            rootv, Tail(kvs), results)

\* `self._apply_map_block(item, items_spec.get("map", {}), mapped_item)`
ItemMap(h, item, items_spec, mapped_item) ==
    LET map_block == IF HasKey(items_spec, K_map) THEN Get(items_spec, K_map) ELSE EmptyObj
    IN IF map_block.t # "obj" THEN [heap |-> h, err |-> "AttributeError"]
       ELSE ApplyMapBlock([heap |-> h, err |-> ""], item, map_block.v, mapped_item)

\* the defaults and the canonical fields of one item, and its place in
\* mapped_items; m is what the item's map block left
FinishItem(s, m, mapped_item, defaults, cpaths) ==
    IF m.err # "" THEN [s EXCEPT !.heap = m.heap, !.err = m.err]
    ELSE [heap |-> EnsureCanonicalFields(ApplyDefaults(m.heap, mapped_item, defaults.v),
                                         mapped_item, cpaths),
          err |-> "", val |-> Append(s.val, mapped_item)]

\* the loop `for item in root_items` of execute: [heap, err, val]
RECURSIVE MapItems(_, _, _, _, _, _)
MapItems(s, root_items, broadcast_values, items_spec, defaults, cpaths) ==
    IF root_items = <<>> \/ s.err # "" THEN s
    ELSE MapItems(FinishItem(s,
                      ItemMap(ApplyBroadcast(Append(s.heap, EmptyObj), Ref(Len(s.heap) + 1),
                                             s.heap[broadcast_values.v].v),
                              Head(root_items), items_spec, Ref(Len(s.heap) + 1)),
                      Ref(Len(s.heap) + 1), defaults, cpaths),
                  Tail(root_items), broadcast_values, items_spec, defaults, cpaths)

\* the result dict of execute; m is what the loop over root_items left
ExecuteResult(spec, m) ==
    IF m.err # "" THEN [heap |-> m.heap, err |-> m.err, val |-> Null]
    ELSE [heap |-> IF Truthy(Get(spec, K_partner_id))
                   THEN HPut(HPut(Append(m.heap, EmptyObj), Ref(Len(m.heap) + 1), K_items,
                                  List(m.val)),
                             Ref(Len(m.heap) + 1), K_partner_id, Get(spec, K_partner_id))
                   ELSE HPut(Append(m.heap, EmptyObj), Ref(Len(m.heap) + 1), K_items,
                             List(m.val)),
          err |-> "", val |-> Ref(Len(m.heap) + 1)]

\* execute from the loop over root_items on
ExecuteLoop(h, broadcast_values, spec, cpaths, root_items) ==
    LET defaults == IF Truthy(Get(spec, K_defaults)) THEN Get(spec, K_defaults) ELSE EmptyObj
    IN IF IsRaise(root_items) THEN [heap |-> h, err |-> root_items.v, val |-> Null]
       ELSE IF root_items.v # <<>> /\ defaults.t # "obj"
       THEN [heap |-> h, err |-> "AttributeError", val |-> Null]
       ELSE ExecuteResult(spec, MapItems([heap |-> h, err |-> "", val |-> <<>>], root_items.v,
                                         broadcast_values, Get(Get(spec, K_mappings), K_items),
                                         defaults, cpaths))

\* execute from `items_spec = ...` on; b is what _compute_broadcast left
ExecuteItems(h, rootv, spec, cpaths, b) ==
    LET items_spec == Get(Get(spec, K_mappings), K_items)
    IN IF b.err # "" THEN [heap |-> h, err |-> b.err, val |-> Null]
       ELSE IF items_spec.t # "obj" THEN [heap |-> b.heap, err |-> "ValueError", val |-> Null]
       ELSE ExecuteLoop(b.heap, Ref(Len(h) + 1), spec, cpaths,
                        EvaluatePath(b.heap, rootv, Get(items_spec, K_path)))

\* MappingExecutor.execute on the heap h holding the payload at rootv:
\* [heap, err, val], val the address of the result dict when err = ""
Execute(h, rootv, spec, cpaths) ==
    LET broadcast_spec == IF Truthy(Get(spec, K_broadcast)) THEN Get(spec, K_broadcast)
                          ELSE EmptyObj
    IN IF Get(spec, K_mappings).t # "obj" THEN [heap |-> h, err |-> "ValueError", val |-> Null]
       ELSE ExecuteItems(h, rootv, spec, cpaths,
                IF broadcast_spec.t # "obj" THEN [heap |-> h, err |-> "AttributeError"]
                ELSE ComputeBroadcast([heap |-> Append(h, EmptyObj), err |-> ""], rootv,
                                      broadcast_spec.v, Ref(Len(h) + 1)))

----------------------------------------------------------------------------
(* mapping_service.py *)

\* str.isdigit() for ASCII digits
IsDigits(s) == s # <<>> /\ \A i \in 1..Len(s) : IsNumeral(<<s[i]>>)

RECURSIVE DigitsValue(_)
DigitsValue(s) ==
    IF s = <<>> THEN 0 ELSE 10 * DigitsValue(DropLast(s, 1)) + NumeralValue(<<s[Len(s)]>>)

\* int(x) succeeds
IntOk(x) ==
    \/ x.t \in {"num", "bool"}
    \/ /\ x.t = "str"
       /\ \/ IsDigits(x.v)
          \/ Len(x.v) > 1 /\ x.v[1] \in {"-", "+"} /\ IsDigits(Tail(x.v))

\* int(x)
IntOf(x) ==
    CASE x.t = "num" -> x.v
      [] x.t = "bool" -> IF x.v THEN 1 ELSE 0
      [] x.t = "str" /\ x.v[1] = "-" -> 0 - DigitsValue(Tail(x.v))
      [] x.t = "str" /\ x.v[1] = "+" -> DigitsValue(Tail(x.v))
      [] OTHER -> DigitsValue(x.v)

DefaultMaxIterations == 3

MinIterations == 1

MaxIterations == 5

Min(a, b) == IF a < b THEN a ELSE b

Max(a, b) == IF a > b THEN a ELSE b

\* _parse_mapping_agent_options; e is the environment: [enabled, max] with
\* enabled the truth of MAPPING_AGENT_ENABLED and max the value of
\* MAPPING_AGENT_MAX_ITERATIONS (Null when unset)
ParseMappingAgentOptions(options, e) ==
    LET max_env_value == IF Truthy(e.max) /\ IsDigits(e.max.v) THEN DigitsValue(e.max.v)
                         ELSE DefaultMaxIterations
    IN IF options.t # "obj"
       THEN [enabled |-> e.enabled, max_iterations |-> max_env_value]
       ELSE LET enabled == IF HasKey(options, <<"enabled">>)
                           THEN Truthy(Get(options, <<"enabled">>)) ELSE e.enabled
                given == IF HasKey(options, <<"maxIterations">>)
                         THEN Get(options, <<"maxIterations">>)
                         ELSE IF HasKey(options, <<"max_iterations">>)
                         THEN Get(options, <<"max_iterations">>)
                         ELSE Num(max_env_value)
                max_iterations == IF IntOk(given) THEN IntOf(given) ELSE max_env_value
            IN [enabled |-> enabled,
                max_iterations |-> Max(MinIterations, Min(max_iterations, MaxIterations))]

\* _normalize_source_path (the symbols modelled carry no surrounding blanks)
NormalizeSourcePath(path) ==
    IF ~IsStr(path) THEN Null
    ELSE IF path.v = <<>> THEN Null
    ELSE IF StartsWith(path.v, DOLLAR) THEN path
    ELSE Str(DOLLARDOT \o path.v)

\* the path taken when the payload holds no list
DefaultItemsPath(pl) == Str(<<"$", ".", "items", "[", "]">>)

\* _choose_items_path
ChooseItemsPath(pl) ==
    IF pl.t = "list" THEN Str(<<"$", "[", "]">>)
    ELSE IF pl.t = "obj" /\ IsList(Get(pl, <<"items">>)) THEN Str(<<"$", ".", "items", "[", "]">>)
    ELSE IF pl.t = "obj" /\ IsList(Get(pl, <<"data">>)) THEN Str(<<"$", ".", "data", "[", "]">>)
    ELSE IF pl.t = "obj" /\ IsList(Get(pl, <<"records">>))
    THEN Str(<<"$", ".", "records", "[", "]">>)
    ELSE Str(<<"$", ".", "items", "[", "]">>)

\* _mapping_transform
MappingTransform(transform) ==
    CASE transform = Str(<<"string">>) -> Str(<<"to_string">>)
      [] transform = Str(<<"number">>) -> Str(<<"to_float">>)
      [] transform = Str(<<"integer">>) -> Str(<<"to_int">>)
      [] transform = Str(<<"boolean">>) -> Str(<<"to_boolean">>)
      [] transform = Str(<<"date">>) -> Str(<<"to_string">>)
      [] OTHER -> Null

\* [item for item in map(_normalize_source_path, source) if item]
RECURSIVE NormalizedSources(_)
NormalizedSources(xs) ==
    IF xs = <<>> THEN <<>>
    ELSE (IF Truthy(NormalizeSourcePath(Head(xs))) THEN <<NormalizeSourcePath(Head(xs))>>
          ELSE <<>>)
         \o NormalizedSources(Tail(xs))

\* `if cond: d[k] = x`
PutIf(d, cond, k, x) == IF cond THEN Put(d, k, x) ELSE d

\* the spec _build_roaster_mapping_from_list writes for one entry
EntrySpec(entry) ==
    LET source == Get(entry, K_source)
        transform == MappingTransform(Get(entry, K_transform))
    IN PutIf(PutIf(PutIf(Obj(<< <<K_source,
                                  IF IsList(source)
                                  THEN (IF NormalizedSources(source.v) # <<>>
                                        THEN List(NormalizedSources(source.v))
                                        ELSE Null)
                                  ELSE NormalizeSourcePath(source)>> >>),
                         Truthy(transform), K_transform, transform),
                   Get(entry, K_required) = Bool(TRUE), K_required, Bool(TRUE)),
             Get(entry, K_match).t = "obj", K_match, Get(entry, K_match))

\* the loop `for entry in entries` of _build_roaster_mapping_from_list:
\* acc is [map, defaults]
RECURSIVE BuildEntries(_, _)
BuildEntries(entries, acc) ==
    IF entries = <<>> THEN acc
    ELSE BuildEntries(Tail(entries),
            IF Head(entries).t # "obj" THEN acc
            ELSE IF ~IsStr(Get(Head(entries), K_target)) THEN acc
            ELSE [map |-> Put(acc.map, Get(Head(entries), K_target).v, EntrySpec(Head(entries))),
                  defaults |-> PutIf(acc.defaults, ~IsNone(Get(Head(entries), K_default)),
                                     Get(Head(entries), K_target).v,
                                     Get(Head(entries), K_default))])

\* the mapping _build_roaster_mapping_from_list returns for the entries built
Built(pl, built) ==
    [spec |-> Spec4Of(ChooseItemsPath(pl), built.map, EmptyObj, built.defaults),
     defaults |-> built.defaults]

\* _build_roaster_mapping_from_list: [spec, defaults]; a non-empty defaults
\* dict of the argument is the dict the entries' defaults are written into
BuildRoasterMappingFromList(spec, pl) ==
    Built(pl, BuildEntries(IF Truthy(Get(spec, K_mappings)) THEN Get(spec, K_mappings).v
                           ELSE <<>>,
                           [map |-> EmptyObj,
                            defaults |-> IF Truthy(Get(spec, K_defaults))
                                         THEN Get(spec, K_defaults) ELSE EmptyObj]))

\* {_normalize_target_path(path): path for path in paths if keep(path)}
RECURSIVE NormalizedIndex(_, _, _)
NormalizedIndex(kvs, only_items, acc) ==
    IF kvs = <<>> THEN acc
    ELSE NormalizedIndex(Tail(kvs), only_items,
            IF only_items /\ ~Contains(kvs[1][1], DOTITEMSBR) THEN acc
            ELSE Put(acc, NormalizeTargetPath(kvs[1][1]), Str(kvs[1][1])))

Last(xs) == xs[Len(xs)]

\* the tail-match loop of _pick_source
RECURSIVE PickTail(_, _)
PickTail(kvs, target_tail) ==
    IF kvs = <<>> THEN Null
    ELSE IF Last(SplitDots(kvs[1][1])) = target_tail THEN kvs[1][2]
    ELSE PickTail(Tail(kvs), target_tail)

\* _pick_source
PickSource(target_field, normalized_sources) ==
    IF HasKey(normalized_sources, target_field) THEN Get(normalized_sources, target_field)
    ELSE PickTail(normalized_sources.v, Last(SplitDots(target_field)))

\* `x if x else None`
OrNone(x) == IF Truthy(x) THEN x ELSE Null

\* the loop `for normalized_target in sorted(item_targets.keys())`
RECURSIVE AutoMap(_, _, _)
AutoMap(targets, normalized_sources, roaster_map) ==
    IF targets = <<>> THEN roaster_map
    ELSE AutoMap(Tail(targets), normalized_sources,
                 Put(roaster_map, Head(targets),
                     Leaf(OrNone(PickSource(Head(targets), normalized_sources)))))

\* _auto_mapping_spec
AutoMappingSpec(pl, tschema) ==
    Spec4Of(ChooseItemsPath(pl),
            AutoMap(SortedStrs(KeySet(NormalizedIndex(ExtractTargetPaths(tschema).v, TRUE,
                                                      EmptyObj))),
                    NormalizedIndex(Extract(pl).v, FALSE, EmptyObj),
                    EmptyObj),
            EmptyObj, EmptyObj)

\* _bedrock_model_id() is set
BedrockModelIdAlways(e) == TRUE

BedrockModelId(e) == e.model

\* `for _ in range(options["max_iterations"])` has an iteration left after
\* `completed` of them
\* a loop that stops on an empty repair only
EmptyImprovement(improved_mapping, current) == ~Truthy(improved_mapping)

\* `not improved_mapping or improved_mapping == current_mapping`
NoImprovement(improved_mapping, current) ==
    ~Truthy(improved_mapping) \/ PyEq(improved_mapping, current)

InRangeInclusive(completed, options) == completed <= options.max_iterations

InRange(completed, options) == completed < options.max_iterations

\* _get_nested_value on an item of the executor's result
RECURSIVE GetNestedValue(_, _, _)
GetNestedValue(h, cursor, parts) ==
    IF parts = <<>> THEN cursor
    ELSE IF IsList(cursor) THEN cursor
    ELSE IF ~IsRef(cursor) \/ ~HHas(h, cursor, Head(parts)) THEN Null
    ELSE GetNestedValue(h, HGet(h, cursor, Head(parts)), Tail(parts))

\* _is_missing_value
IsMissingValueOrStr(h, value) ==
    \/ IsNone(value)
    \/ IsStr(value)
    \/ IsList(value) /\ value.v = <<>>
    \/ IsRef(value) /\ h[value.v].v = <<>>

IsMissingValue(h, value) ==
    \/ IsNone(value)
    \/ value = Str(<<>>)
    \/ IsList(value) /\ value.v = <<>>
    \/ IsRef(value) /\ h[value.v].v = <<>>

\* _collect_leaf_sources
RECURSIVE CollectLeafSources(_, _, _)
CollectLeafSources(kvs, prefix, leaves) ==
    IF kvs = <<>> THEN leaves
    ELSE
    LET spec == kvs[1][2]
        target_path == prefix \o kvs[1][1]
        next == IF spec.t # "obj" THEN leaves
                ELSE IF HasKey(spec, K_path) /\ HasKey(spec, K_map) /\ Get(spec, K_map).t = "obj"
                THEN Update(leaves, CollectLeafSources(Get(spec, K_map).v,
                                                       target_path \o <<".">>, EmptyObj))
                ELSE Put(leaves, target_path, Get(spec, K_source))
    IN IF next.t # "obj" THEN next ELSE CollectLeafSources(Tail(kvs), prefix, next)

\* the fields of leaf_sources whose source is None or an empty list
RECURSIVE MissingSources(_)
MissingSources(kvs) ==
    IF kvs = <<>> THEN <<>>
    ELSE (IF IsNone(kvs[1][2]) \/ (IsList(kvs[1][2]) /\ kvs[1][2].v = <<>>)
          THEN <<kvs[1][1]>> ELSE <<>>)
         \o MissingSources(Tail(kvs))

\* the issue lists are cut to their first IssueCap entries
IssueCap == 40

Cap(xs) == SubSeq(xs, 1, Min(Len(xs), IssueCap))

\* the number of items whose value at target_path is not missing
RECURSIVE CountNonNull(_, _, _)
CountNonNull(h, items, parts) ==
    IF items = <<>> THEN 0
    ELSE (IF IsMissingValue(h, GetNestedValue(h, Head(items), parts)) THEN 0 ELSE 1)
         + CountNonNull(h, Tail(items), parts)

\* the loop `for target_path in target_paths` of _summarize_mapping_issues:
\* acc is [none, sparse]
RECURSIVE FieldIssues(_, _, _, _)
FieldIssues(h, items, tpaths, acc) ==
    IF tpaths = <<>> THEN acc
    ELSE LET non_null == CountNonNull(h, items, SplitDots(Head(tpaths)))
             total == Len(items)
         IN FieldIssues(h, items, Tail(tpaths),
                IF non_null = 0 THEN [acc EXCEPT !.none = Append(@, Head(tpaths))]
                ELSE IF non_null < total /\ 2 * non_null < total
                THEN [acc EXCEPT !.sparse = Append(@, [field |-> Head(tpaths),
                                                       nonNull |-> non_null,
                                                       total |-> total])]
                ELSE acc)

NoIssues ==
    [validationErrors |-> <<>>, missingSourceFields |-> <<>>, fieldsWithNoValues |-> <<>>,
     fieldsWithSparseValues |-> <<>>, executionError |-> ""]

\* what a call of _summarize_mapping_issues leaves
Summary(found, h, rootv, raised) ==
    [issues |-> found, heap |-> h, root |-> rootv, payload |-> Resolve(h, rootv),
     raised |-> raised]

\* _summarize_mapping_issues from the executor's return on; i1 holds the
\* issues found before the execution, r is what execute left
Summarized(i1, tpaths, rootv, r) ==
    LET items == HGet(r.heap, r.val, K_items).v
        f == FieldIssues(r.heap, items, tpaths, [none |-> <<>>, sparse |-> <<>>])
    IN IF r.err # "" THEN Summary([i1 EXCEPT !.executionError = r.err], r.heap, rootv, "")
       ELSE IF items = <<>>
       THEN Summary([i1 EXCEPT !.executionError = "Mapping output has no items."],
                    r.heap, rootv, "")
       ELSE Summary([i1 EXCEPT !.fieldsWithNoValues = Cap(f.none),
                               !.fieldsWithSparseValues = Cap(f.sparse)], r.heap, rootv, "")

\* _summarize_mapping_issues on the loaded payload
SummarizeLoaded(spec, tpaths, loaded) ==
    LET mappings == Get(spec, K_mappings)
        items_of == Get(mappings, K_items)
        escapes == mappings.t = "obj" /\ HasKey(mappings, K_items)
                   /\ \/ items_of.t # "obj"
        items_map == IF mappings.t = "obj"
                     THEN (IF ~HasKey(mappings, K_items) THEN EmptyObj
                           ELSE IF HasKey(items_of, K_map) THEN Get(items_of, K_map)
                           ELSE EmptyObj)
                     ELSE EmptyObj
    IN IF escapes THEN Summary(NoIssues, loaded.heap, loaded.val, "AttributeError")
       ELSE Summarized([NoIssues EXCEPT
                          !.validationErrors = ValidateMappingSpec(spec),
                          !.missingSourceFields =
                             IF items_map.t = "obj"
                             THEN Cap(MissingSources(
                                        CollectLeafSources(items_map.v, <<>>, EmptyObj).v))
                             ELSE <<>>],
                       tpaths, loaded.val,
                       Execute(loaded.heap, loaded.val, spec, CanonicalPaths(tpaths)))

\* _summarize_mapping_issues: [issues, heap, root, payload, raised]; heap is
\* the executor's heap after the call (the payload's dicts first), payload
\* the payload as the call leaves it, raised the exception that escapes the
\* function ("" when it returns); executionError holds the kind of the
\* exception caught, "" standing for None
SummarizeMappingIssues(spec, pl, tpaths) == SummarizeLoaded(spec, tpaths, Load(<<>>, pl))

\* _has_mapping_issues
HasMappingIssues(found) ==
    \/ found.executionError # ""
    \/ found.validationErrors # <<>>
    \/ found.missingSourceFields # <<>>
    \/ found.fieldsWithNoValues # <<>>
    \/ found.fieldsWithSparseValues # <<>>

----------------------------------------------------------------------------
(* Inputs *)

P(syms) == Str(syms)

Src(syms) == Leaf(Str(syms))

Spec4(path, map, broadcast, defaults) == Spec4Of(path, map, broadcast, defaults)

S_A == Str(<<"A">>)

S_B == Str(<<"B">>)

PayloadItems ==
    Obj(<< << <<"items">>,
              List(<< Obj(<< << <<"id">>, Str(<<"1">>)>>, << <<"name">>, S_A>> >>),
                      Obj(<< << <<"id">>, Str(<<"2">>)>>, << <<"name">>, S_B>> >>) >>)>> >>)

PayloadRich ==
    Obj(<< << <<"meta">>, Obj(<< << <<"source">>, Str(<<"feed">>)>> >>)>>,
           << <<"items">>,
              List(<< Obj(<< << <<"id">>, Num(1)>>,
                             << <<"o">>, Obj(<< << <<"x">>, Num(1)>> >>)>>,
                             << <<"y">>, Num(2)>>,
                             << <<"tags">>, List(<< Obj(<< << <<"sku">>, Str(<<"s1">>)>> >>),
                                                   Obj(<< << <<"sku">>, Str(<<"s2">>)>> >>) >>)>> >>),
                      Obj(<< << <<"id">>, Null>>,
                             << <<"name">>, S_B>> >>) >>)>> >>)

PayloadList ==
    List(<< Obj(<< << <<"id">>, Num(3)>>, << <<"o">>, Obj(<< << <<"b">>, Null>> >>)>> >>) >>)

ExecPayloads == {PayloadItems, PayloadRich, PayloadList}

ExecItemPaths == {P(<<"$", ".", "items", "[", "]">>), P(<<"$", "[", "*", "]">>)}

ExecMaps ==
    { Obj(<< << <<"items", ".", "id">>, Src(<<"$", ".", "id">>)>>,
             << <<"items", ".", "name">>, Src(<<"$", ".", "name">>)>> >>),
      Obj(<< << <<"id">>, Leaf(Null)>>,
             << <<"name">>, Put(Src(<<"$", ".", "name">>), K_required, Bool(TRUE))>> >>),
      Obj(<< << <<"a">>, Src(<<"$", ".", "o">>)>>,
             << <<"a", ".", "b">>, Src(<<"$", ".", "y">>)>> >>),
      Obj(<< << <<"tags">>, Obj(<< <<K_path, P(<<"$", ".", "tags", "[", "]">>)>>,
                                   <<K_map, Obj(<< << <<"sku">>, Src(<<"$", ".", "sku">>)>> >>)>> >>)>>,
             << <<"id">>, Leaf(List(<< Str(<<"$", ".", "sku">>), Str(<<"$", ".", "id">>) >>))>> >>),
      Obj(<< << <<"a">>, Src(<<"$", ".", "tags", "[", "]", ".", "sku">>)>>,
             << <<"name", ".", "b">>, Src(<<"$", ".", "id">>)>> >>) }

ExecBroadcasts ==
    { EmptyObj,
      Obj(<< << <<"feed">>, Src(<<"$", ".", "meta", ".", "source">>)>> >>),
      Obj(<< << <<"g">>, Src(<<"$", ".", "meta">>)>>,
             << <<"g", ".", "h">>, Src(<<"$", ".", "items", "[", "]", ".", "name">>)>> >>) }

ExecDefaults ==
    { EmptyObj,
      Obj(<< << <<"name">>, Str(<<"N">>)>>,
             << <<"a", ".", "c">>, Obj(<< << <<"k">>, Num(1)>> >>)>> >>) }

ExecSpecs ==
    { Spec4(p, m, b, d) : p \in ExecItemPaths, m \in ExecMaps, b \in ExecBroadcasts,
                          d \in ExecDefaults }

ExecTargetPaths ==
    { <<>>,
      << <<"items", ".", "id">>, <<"items", ".", "name">> >>,
      << <<"a", ".", "b">>, <<"a">>, <<"$", ".", "items", "[", "]", ".", "tags", "[", "]", ".", "sku">> >>,
      << <<"name">>, <<"name", ".", "b", ".", "c">>, <<"a", ".", "x">> >> }

----------------------------------------------------------------------------
(* SpecExec: a caller constructs a MappingExecutor for a validated spec    *)
(* and calls execute once.                                                 *)

NoResult == [err |-> "", val |-> Null]

NoOptions == [enabled |-> FALSE, max_iterations |-> 0]

NoEnviron == [enabled |-> FALSE, max |-> Null, model |-> FALSE]

\* the variables of the agent loop before any call of the service
AgentIdle ==
    /\ target_schema = Null
    /\ mapping_agent = Null
    /\ environ = NoEnviron
    /\ agent_options = NoOptions
    /\ current_mapping = Null
    /\ aliased = FALSE
    /\ iteration = 0
    /\ issues = NoIssues
    /\ invoke_count = 0
    /\ raw_texts = <<>>

\* the variables of repair and validation before any call
RepairIdle ==
    /\ roaster_mapping = Null
    /\ repairs = <<>>
    /\ validation_errors = <<>>
    /\ allowed_targets = NoTargets

\* no endpoint has been called and the storage holds no job
ServiceIdle ==
    /\ request = Null
    /\ jobs = <<>>
    /\ invocations = <<>>

\* the variables of the executor before it is constructed
ExecIdle ==
    /\ heap = <<>>
    /\ root = Null
    /\ canonical_paths = <<>>
    /\ result = NoResult

InitExec ==
    /\ AgentIdle
    /\ RepairIdle
    /\ pc = "new"
    /\ payload \in ExecPayloads
    /\ mapping_spec \in {s \in ExecSpecs : ValidateMappingSpec(s) = <<>>}
    /\ target_paths \in ExecTargetPaths
    /\ heap = Load(<<>>, payload).heap
    /\ root = Load(<<>>, payload).val
    /\ canonical_paths = <<>>
    /\ result = NoResult
    /\ ServiceIdle

\* MappingExecutor.__init__
Construct ==
    /\ pc = "new"
    /\ pc' = "ready"
    /\ canonical_paths' = CanonicalPaths(target_paths)
    /\ UNCHANGED <<payload, heap, root, mapping_spec, target_paths, result>>
    /\ UNCHANGED <<agentVars, repairVars>>
    /\ UNCHANGED serviceVars

\* MappingExecutor.execute
ExecuteCall ==
    /\ pc = "ready"
    /\ \E r \in {Execute(heap, root, mapping_spec, canonical_paths)} :
          /\ heap' = r.heap
          /\ result' = [err |-> r.err, val |-> r.val]
    /\ pc' = "done"
    /\ UNCHANGED <<payload, root, mapping_spec, target_paths, canonical_paths>>
    /\ UNCHANGED <<agentVars, repairVars>>
    /\ UNCHANGED serviceVars

NextExec == Construct \/ ExecuteCall

SpecExec == InitExec /\ [][NextExec]_vars

----------------------------------------------------------------------------
(* Properties of MappingExecutor.execute (SpecExec) *)

\* the dotted path is a path of keys of the item
RECURSIVE HasKeyPath(_, _, _)
HasKeyPath(h, cursor, parts) ==
    \/ parts = <<>>
    \/ /\ IsRef(cursor)
       /\ HHas(h, cursor, Head(parts))
       /\ HasKeyPath(h, HGet(h, cursor, Head(parts)), Tail(parts))

\* the value at a proper, non-empty prefix of the dotted path is a list
RECURSIVE ListAncestor(_, _, _)
ListAncestor(h, cursor, parts) ==
    /\ Len(parts) > 1
    /\ IsRef(cursor)
    /\ HHas(h, cursor, Head(parts))
    /\ \/ IsList(HGet(h, cursor, Head(parts)))
       \/ ListAncestor(h, HGet(h, cursor, Head(parts)), Tail(parts))

ReturnedItems == HGet(heap, result.val, K_items).v

Returned == pc = "done" /\ result.err = ""

\* C1: every item returned by execute holds every canonical target path of
\* the executor (the paths of the target schema as __init__ normalises
\* them) as a path of keys, its value possibly null, unless the value at an
\* ancestor of the path inside the item is a list.
C1_CanonicalPathsPresent ==
    Returned =>
        \A i \in 1..Len(ReturnedItems) : \A j \in 1..Len(canonical_paths) :
            canonical_paths[j] # <<>> =>
                \/ HasKeyPath(heap, ReturnedItems[i], SplitDots(canonical_paths[j]))
                \/ ListAncestor(heap, ReturnedItems[i], SplitDots(canonical_paths[j]))

\* an item returned with one canonical path filled with null and another
\* left out below a list
C1_Witness ==
    /\ Returned
    /\ \E i \in 1..Len(ReturnedItems) :
          /\ \E j \in 1..Len(canonical_paths) :
                /\ HasKeyPath(heap, ReturnedItems[i], SplitDots(canonical_paths[j]))
                /\ IsNone(GetNested(heap, ReturnedItems[i], canonical_paths[j]))
          /\ \E j \in 1..Len(canonical_paths) :
                /\ ListAncestor(heap, ReturnedItems[i], SplitDots(canonical_paths[j]))
                /\ ~HasKeyPath(heap, ReturnedItems[i], SplitDots(canonical_paths[j]))

\* the dicts of the payload as they were when the caller passed it
PayloadCells == Load(<<>>, payload).heap

\* C3: execute never mutates the payload: after the call every dict of the
\* payload holds what it held before.  (The spec and the canonical path list
\* are values the model's execute cannot change.)
C3_PayloadNotMutated ==
    pc = "done" => SubSeq(heap, 1, Len(PayloadCells)) = PayloadCells

----------------------------------------------------------------------------
(* execute_mapping: inputs *)

K_id == <<"items", ".", "id">>

K_name == <<"items", ".", "name">>

\* _build_roaster_mapping(source_id, source_name) of tests/test_mapping_agent.py
BuildRoasterMapping(source_id, source_name) ==
    Spec4Of(Str(<<"$", ".", "items", "[", "]">>),
            Obj(<< <<K_id, Leaf(source_id)>>, <<K_name, Leaf(source_name)>> >>),
            EmptyObj, EmptyObj)

Row(id, name) == Obj(<< <<(<<"id">>), id>>, <<(<<"name">>), name>> >>)

\* two complete rows
PayloadStraight ==
    Obj(<< <<K_items, List(<<Row(Str(<<"1">>), Str(<<"A">>)),
                             Row(Str(<<"2">>), Str(<<"B">>))>>)>> >>)

\* three rows, one of them with a name
PayloadSparse ==
    Obj(<< <<K_items, List(<<Row(Str(<<"1">>), Str(<<"A">>)),
                             Row(Str(<<"2">>), Null),
                             Row(Str(<<"3">>), Str(<<>>))>>)>> >>)

\* no key of the rows matches a target
PayloadRecords ==
    Obj(<< <<(<<"records">>),
             List(<<Obj(<< <<(<<"productId">>), Num(7)>>,
                           <<(<<"title">>), Str(<<"T">>)>> >>)>>)>> >>)

Payloads == {PayloadStraight, PayloadSparse, PayloadRecords}

SchemaIdName ==
    Obj(<< <<K_items, List(<<Obj(<< <<(<<"id">>), Str(<<"string">>)>>,
                                    <<(<<"name">>), Str(<<"string">>)>> >>)>>)>> >>)

\* a schema already keyed by paths
SchemaPaths ==
    Obj(<< <<(<<"$", ".", "items", "[", "]", ".", "id">>), Str(<<"string">>)>> >>)

TargetSchemas == {SchemaIdName, SchemaPaths}

SpecAllNull == BuildRoasterMapping(Null, Null)

SpecStraight == BuildRoasterMapping(Str(<<"$", ".", "id">>), Str(<<"$", ".", "name">>))

\* a constant and a feed-level source
SpecConstFeed ==
    BuildRoasterMapping(Str(<<"$", ".", "meta", ".", "source">>), Str(<<"USD">>))

\* the path of the items does not end an array
SpecNoArray ==
    Spec4Of(Str(<<"$", ".", "items">>),
            Obj(<< <<K_id, Leaf(Str(<<"$", ".", "id">>))>> >>), EmptyObj, EmptyObj)

\* the flat-list dialect
SpecFlat ==
    Obj(<< <<K_mappings,
             List(<< Obj(<< <<K_target, Str(K_id)>>, <<K_source, Str(<<"id">>)>>,
                            <<K_transform, Str(<<"string">>)>> >>),
                     Obj(<< <<K_target, Str(K_name)>>, <<K_source, Null>>,
                            <<K_default, Str(<<"n/a">>)>> >>) >>)>>,
           <<K_defaults, Obj(<< <<K_id, Str(<<"0">>)>> >>)>> >>)

\* mappings.items is not an object
SpecItemsList == Obj(<< <<K_mappings, Obj(<< <<K_items, List(<<>>)>> >>)>> >>)

PartnerSpecs ==
    {Null, SpecAllNull, SpecStraight, SpecConstFeed, SpecNoArray, SpecFlat, SpecItemsList}

AgentOn(n) == Obj(<< <<(<<"enabled">>), Bool(TRUE)>>, <<(<<"maxIterations">>), n>> >>)

MappingAgents == {Null, AgentOn(Num(1)), AgentOn(Num(2)), AgentOn(Str(<<"3">>))}

Environs == {[enabled |-> FALSE, max |-> Null, model |-> m] : m \in BOOLEAN}

ClientError == Raise("ClientError")

\* what the model can answer
OracleReplies ==
    {Null,
     Text(<<>>),
     ClientError,
     Text(<<JsonDumps(SpecAllNull)>>),
     Text(<<JsonDumps(SpecStraight)>>),
     Text(<<Prose(<<"Here is the mapping">>), JsonDumps(SpecConstFeed)>>),
     Text(<<Prose(<<"I cannot help">>)>>)}

----------------------------------------------------------------------------
(* execute_mapping: one action per stretch of code between two calls of    *)
(* the model                                                               *)

Init ==
    /\ pc = "call"
    /\ payload \in Payloads
    /\ mapping_spec \in PartnerSpecs
    /\ target_schema \in TargetSchemas
    /\ mapping_agent \in MappingAgents
    /\ environ \in Environs
    /\ target_paths = <<>>
    /\ agent_options = NoOptions
    /\ current_mapping = Null
    /\ aliased = FALSE
    /\ iteration = 0
    /\ issues = NoIssues
    /\ invoke_count = 0
    /\ raw_texts = <<>>
    /\ ExecIdle
    /\ RepairIdle
    /\ ServiceIdle

\* with the base mapping chosen: the refinement loop when the agent is
\* enabled and has an iteration left, the return of _prepare_roaster_mapping
\* otherwise
Proceed(options, base, is_partner) ==
    /\ aliased' = is_partner
    /\ IF options.enabled /\ InRange(0, options)
       THEN /\ current_mapping' = base
            /\ pc' = "loop"
            /\ UNCHANGED roaster_mapping
       ELSE /\ current_mapping' = IF options.enabled THEN base ELSE current_mapping
            /\ roaster_mapping' = base
            /\ pc' = "prepared"

\* `generated if generated else _auto_mapping_spec(payload, target_schema)`
OrAutoMapping(generated, pl, tschema) ==
    IF Truthy(generated) THEN generated ELSE AutoMappingSpec(pl, tschema)

\* _prepare_roaster_mapping up to the choice of the base mapping, with the
\* head of _generate_mapping_with_agent when the agent is enabled
PrepareRoasterMapping ==
    /\ pc = "call"
    /\ target_paths' = TargetPaths(target_schema)
    /\ \E options \in {ParseMappingAgentOptions(mapping_agent, environ)} :
       LET mappings_value == IF Truthy(mapping_spec) THEN Get(mapping_spec, K_mappings)
                             ELSE Null
       IN /\ agent_options' = options
          /\ IF ~Truthy(mapping_spec) \/ ~Truthy(mappings_value)
                \/ mappings_value.t \notin {"list", "obj"}
             THEN /\ pc' = "generate"
                  /\ UNCHANGED <<mapping_spec, current_mapping, aliased, roaster_mapping>>
             ELSE IF mappings_value.t = "list"
             THEN \E built \in {BuildRoasterMappingFromList(mapping_spec, payload)} :
                  /\ mapping_spec' = IF Truthy(Get(mapping_spec, K_defaults))
                                     THEN Put(mapping_spec, K_defaults, built.defaults)
                                     ELSE mapping_spec
                  /\ Proceed(options, built.spec, FALSE)
             ELSE /\ Proceed(options, mapping_spec, TRUE)
                  /\ UNCHANGED mapping_spec
    /\ UNCHANGED <<payload, heap, root, canonical_paths, result, target_schema, mapping_agent,
                   environ, iteration, issues, invoke_count, raw_texts, repairs,
                   validation_errors,
                   allowed_targets>>
    /\ UNCHANGED serviceVars

\* _generate_mapping_with_bedrock and the fall-back on _auto_mapping_spec
GenerateMappingWithBedrock ==
    /\ pc = "generate"
    /\ \/ /\ ~BedrockModelId(environ)
          /\ Proceed(agent_options, AutoMappingSpec(payload, target_schema), FALSE)
          /\ UNCHANGED <<invoke_count, raw_texts>>
       \/ /\ BedrockModelId(environ)
          /\ \E raw_text \in OracleReplies :
                /\ invoke_count' = invoke_count + 1
                /\ raw_texts' = Append(raw_texts, raw_text)
                /\ Proceed(agent_options,
                           OrAutoMapping(IF raw_text = ClientError \/ raw_text = Null
                                            \/ raw_text = Text(<<>>)
                                         THEN Null
                                         ELSE RepairMappingSpec(raw_text, NoTargets).spec,
                                         payload, target_schema),
                           FALSE)
    /\ UNCHANGED <<payload, heap, root, mapping_spec, target_paths, canonical_paths, result,
                   target_schema, mapping_agent, environ, agent_options, iteration, issues,
                   repairs, validation_errors,
                   allowed_targets>>
    /\ UNCHANGED serviceVars

\* one iteration of the loop of _generate_mapping_with_agent, up to the call
\* of the model
Iterate ==
    /\ pc = "loop"
    /\ \E rep \in {RepairMappingSpec(current_mapping, Allowed(SeqToSet(target_paths)))} :
       \E current \in {OrAutoMapping(rep.spec, payload, target_schema)} :
       \E sm \in {SummarizeMappingIssues(current, payload, target_paths)} :
          /\ repairs' = rep.repairs
          /\ mapping_spec' = IF aliased /\ ~IsNone(rep.spec) THEN rep.spec ELSE mapping_spec
          /\ aliased' = (aliased /\ Truthy(rep.spec))
          /\ current_mapping' = current
          /\ payload' = sm.payload
          /\ heap' = sm.heap
          /\ root' = sm.root
          /\ canonical_paths' = CanonicalPaths(target_paths)
          /\ issues' = sm.issues
          /\ IF sm.raised # ""
             THEN /\ pc' = "raised"
                  /\ result' = [err |-> sm.raised, val |-> Null]
                  /\ UNCHANGED roaster_mapping
             ELSE IF ~HasMappingIssues(sm.issues) \/ ~BedrockModelId(environ)
             THEN /\ pc' = "prepared"
                  /\ roaster_mapping' = current
                  /\ UNCHANGED result
             ELSE /\ pc' = "invoke"
                  /\ UNCHANGED <<result, roaster_mapping>>
    /\ UNCHANGED <<target_paths, target_schema, mapping_agent, environ, agent_options,
                   iteration, invoke_count, raw_texts, validation_errors,
                   allowed_targets>>
    /\ UNCHANGED serviceVars

\* the call of the model in the loop and what the loop does with the answer
Refine ==
    /\ pc = "invoke"
    /\ \E raw_text \in OracleReplies :
       \E improved_mapping \in
             {RepairMappingSpec(raw_text, Allowed(SeqToSet(target_paths))).spec} :
             /\ invoke_count' = invoke_count + 1
             /\ raw_texts' = Append(raw_texts, raw_text)
             /\ IF raw_text = ClientError
                THEN /\ pc' = "raised"
                     /\ result' = [err |-> "ClientError", val |-> Null]
                     /\ UNCHANGED <<current_mapping, aliased, iteration, roaster_mapping>>
                ELSE IF raw_text = Null \/ raw_text = Text(<<>>)
                        \/ NoImprovement(improved_mapping, current_mapping)
                THEN /\ pc' = "prepared"
                     /\ roaster_mapping' = current_mapping
                     /\ UNCHANGED <<current_mapping, aliased, iteration, result>>
                ELSE /\ current_mapping' = improved_mapping
                     /\ aliased' = FALSE
                     /\ iteration' = iteration + 1
                     /\ UNCHANGED result
                     /\ IF InRange(iteration + 1, agent_options)
                        THEN pc' = "loop" /\ UNCHANGED roaster_mapping
                        ELSE pc' = "prepared" /\ roaster_mapping' = improved_mapping
    /\ UNCHANGED <<payload, heap, root, mapping_spec, target_paths, canonical_paths,
                   target_schema, mapping_agent, environ, agent_options, issues, repairs,
                   validation_errors,
                   allowed_targets>>
    /\ UNCHANGED serviceVars

\* execute_mapping after _prepare_roaster_mapping has returned
ExecuteMapping ==
    /\ pc = "prepared"
    /\ \E rep \in {RepairMappingSpec(roaster_mapping, Allowed(SeqToSet(target_paths)))} :
          /\ roaster_mapping' = rep.spec
          /\ repairs' = rep.repairs
          /\ mapping_spec' = IF aliased THEN rep.spec ELSE mapping_spec
          /\ IF ~Truthy(rep.spec)
             THEN /\ pc' = "raised"
                  /\ result' = [err |-> "ValueError", val |-> Null]
                  /\ UNCHANGED <<validation_errors, payload, heap, root, canonical_paths>>
             ELSE \E errors \in {ValidateMappingSpec(rep.spec)} :
                  IF errors # <<>>
                  THEN /\ pc' = "raised"
                       /\ validation_errors' = errors
                       /\ result' = [err |-> "ValueError", val |-> Null]
                       /\ UNCHANGED <<payload, heap, root, canonical_paths>>
                  ELSE \E loaded \in {Load(<<>>, payload)} :
                       \E r \in {Execute(loaded.heap, loaded.val, rep.spec,
                                         CanonicalPaths(target_paths))} :
                       /\ validation_errors' = errors
                       /\ canonical_paths' = CanonicalPaths(target_paths)
                       /\ heap' = r.heap
                       /\ root' = loaded.val
                       /\ payload' = Resolve(r.heap, loaded.val)
                       /\ result' = [err |-> r.err, val |-> r.val]
                       /\ pc' = IF r.err = "" THEN "done" ELSE "raised"
    /\ UNCHANGED <<target_paths, target_schema, mapping_agent, environ, agent_options,
                   current_mapping, aliased, iteration, issues, invoke_count, raw_texts,
                   allowed_targets>>
    /\ UNCHANGED serviceVars

Next ==
    \/ PrepareRoasterMapping
    \/ GenerateMappingWithBedrock
    \/ Iterate
    \/ Refine
    \/ ExecuteMapping

Spec == Init /\ [][Next]_vars

----------------------------------------------------------------------------
(* repair_mapping_spec followed by a second repair or by                   *)
(* validate_mapping_spec (SpecRepair)                                      *)

ItemsArray == Str(<<"$", ".", "items", "[", "]">>)

FeedSource == Str(<<"$", ".", "meta", ".", "source">>)

RepairItemPaths == {ItemsArray, Str(<<"$", ".", "items">>)}

RepairMaps ==
    { Obj(<< <<(<<"id">>), Leaf(Null)>>, <<(<<"name">>), Src(<<"$", ".", "name">>)>> >>),
      Obj(<< <<(<<"name">>), Leaf(Str(<<"USD">>))>>, <<(<<"id">>), Leaf(FeedSource)>> >>),
      Obj(<< <<(<<"id", "[", "]">>), Src(<<"$", ".", "id">>)>> >>),
      Obj(<< <<(<<"a", "[", "[", "]", "]">>), Src(<<"$", ".", "id">>)>> >>),
      Obj(<< <<(<<"$", "a">>), Src(<<"$", ".", "id">>)>> >>),
      Obj(<< <<(<<"id">>), Leaf(List(<<FeedSource, Str(<<"$", ".", "id">>)>>))>> >>),
      Obj(<< <<(<<"id">>), Leaf(Num(5))>> >>),
      Obj(<< <<(<<"tags">>),
               Obj(<< <<K_path, Str(<<"$", ".", "tags", "[", "]">>)>>,
                      <<K_map, Obj(<< <<(<<"sku">>), Leaf(FeedSource)>> >>)>> >>)>> >>),
      Obj(<< <<(<<"id">>), Src(<<"$", ".", "a", " + ", "$", ".", "b">>)>> >>),
      Obj(<< <<(<<"id">>), Str(<<"x">>)>>, <<(<<"name">>), Leaf(Null)>> >>),
      Obj(<< <<(<<"name">>), Leaf(List(<<Str(<<"USD">>), Str(<<"$", ".", "name">>)>>))>>,
             <<(<<"tags">>),
               Obj(<< <<K_path, Str(<<"$", ".", "tags", "[", "]">>)>>,
                      <<K_map, Obj(<< <<(<<"sku">>), Leaf(Str(<<"USD">>))>> >>)>> >>)>> >>) }

RepairDefaults ==
    {EmptyObj, Obj(<< <<(<<"name", "[", "]">>), Str(<<"n/a">>)>> >>), Null}

RepairBroadcasts ==
    {EmptyObj, Obj(<< <<(<<"id">>), Leaf(FeedSource)>> >>),
     Obj(<< <<(<<"id">>), Src(<<"$", ".", "partner">>)>> >>),
     Obj(<< <<(<<"name">>), Leaf(FeedSource)>> >>)}

RepairSpecs ==
    {Spec4Of(path, map, broadcast, defaults) :
        path \in RepairItemPaths, map \in RepairMaps,
        broadcast \in RepairBroadcasts, defaults \in RepairDefaults}

\* specs without a map, texts, and a value that is neither
RepairInputs ==
    RepairSpecs \cup
    { Obj(<< <<K_mappings, Obj(<< <<K_items, Obj(<< <<K_path, ItemsArray>> >>)>> >>)>> >>),
      Text(<<Prose(<<"Here is the mapping">>), JsonDumps(SpecConstFeed)>>),
      Text(<<Prose(<<"I cannot help">>)>>),
      Text(<<[t |-> "broken", v |-> <<"items">>]>>),
      Null }

AllowedTargets ==
    {NoTargets, Allowed({}), Allowed({<<"id">>, <<"name">>}), Allowed({<<"name">>, <<"tags">>})}

InitRepair ==
    /\ pc = "input"
    /\ mapping_spec \in RepairInputs
    /\ allowed_targets \in AllowedTargets
    /\ roaster_mapping = Null
    /\ repairs = <<>>
    /\ validation_errors = <<>>
    /\ payload = Null
    /\ target_paths = <<>>
    /\ ExecIdle
    /\ AgentIdle
    /\ ServiceIdle

\* mapping_spec, _ = repair_mapping_spec(x, allowed_targets=...)
Repair ==
    /\ pc = "input"
    /\ \E rep \in {RepairMappingSpec(mapping_spec, allowed_targets)} :
          /\ roaster_mapping' = rep.spec
          /\ repairs' = rep.repairs
          /\ mapping_spec' = IF mapping_spec.t = "obj" THEN rep.spec ELSE mapping_spec
    /\ pc' = "repaired"
    /\ UNCHANGED <<execVarsButSpec, agentVars, validation_errors, allowed_targets>>
    /\ UNCHANGED serviceVars

\* repair_mapping_spec applied to the spec a first repair returned
RepairAgain ==
    /\ pc = "repaired"
    /\ \E rep \in {RepairMappingSpec(roaster_mapping, allowed_targets)} :
          /\ roaster_mapping' = rep.spec
          /\ repairs' = rep.repairs
          /\ mapping_spec' = IF mapping_spec.t = "obj" THEN rep.spec ELSE mapping_spec
    /\ pc' = "repaired again"
    /\ UNCHANGED <<execVarsButSpec, agentVars, validation_errors, allowed_targets>>
    /\ UNCHANGED serviceVars

\* validate_mapping_spec applied to the spec a repair returned
ValidateRepaired ==
    /\ pc = "repaired"
    /\ validation_errors' = ValidateMappingSpec(roaster_mapping)
    /\ pc' = "validated"
    /\ UNCHANGED <<execVarsButSpec, mapping_spec, agentVars, roaster_mapping, repairs,
                   allowed_targets>>
    /\ UNCHANGED serviceVars

\* the feeds the repaired spec is executed on
RepairPayloads == {PayloadSparse, PayloadRich}

\* MappingExecutor(mapping_spec).execute(payload) with the spec a repair returned
ExecuteRepaired ==
    /\ pc = "repaired"
    /\ roaster_mapping.t = "obj"
    /\ \E pl \in RepairPayloads :
          \E loaded \in {Load(<<>>, pl)} :
             \E r \in {Execute(loaded.heap, loaded.val, roaster_mapping, <<>>)} :
                /\ payload' = pl
                /\ root' = loaded.val
                /\ heap' = r.heap
                /\ result' = [err |-> r.err, val |-> r.val]
    /\ pc' = "executed"
    /\ UNCHANGED <<mapping_spec, target_paths, canonical_paths, agentVars, repairVars>>
    /\ UNCHANGED serviceVars

NextRepair == Repair \/ RepairAgain \/ ValidateRepaired \/ ExecuteRepaired

SpecRepair == InitRepair /\ [][NextRepair]_vars

\* C4: repair_mapping_spec applied, with the same allowed targets, to the
\* spec a first repair returned returns an equal spec and reports no repair.
C4_RepairIdempotent ==
    [][(pc = "repaired" /\ pc' = "repaired again")
       => (PyEq(roaster_mapping', roaster_mapping) /\ repairs' = <<>>)]_vars

\* the spec has a mappings.items object whose path ends an array
HasItemsArrayPath(spec) ==
    /\ Get(Get(spec, K_mappings), K_items).t = "obj"
    /\ IsArrayPath(Get(Get(Get(spec, K_mappings), K_items), K_path))

\* C5: when the input has a mappings.items object with an array-terminated
\* path, the spec repair_mapping_spec returns for it with allowed_targets
\* omitted is accepted by validate_mapping_spec.
C5_RepairedIsValid ==
    (/\ pc = "validated"
     /\ ~allowed_targets.given
     /\ mapping_spec.t = "obj"
     /\ HasItemsArrayPath(roaster_mapping))
    => validation_errors = <<>>

----------------------------------------------------------------------------
(* _auto_mapping_spec followed by validate_mapping_spec (SpecAuto) *)

\* a key of the feed named like a target of the items
PayloadFeedKey ==
    Obj(<< <<(<<"source">>), Str(<<"x">>)>>,
           <<K_items, List(<<Obj(<< <<(<<"id">>), Num(1)>> >>)>>)>> >>)

PayloadData ==
    Obj(<< <<(<<"meta">>), Obj(<< <<(<<"id">>), Str(<<"x">>)>> >>)>>,
           <<(<<"data">>), List(<<Obj(<< <<(<<"k">>), Num(1)>> >>)>>)>> >>)

AutoPayloads ==
    Payloads \cup ExecPayloads \cup {PayloadFeedKey, PayloadData, Null, Str(<<"x">>)}

SchemaOf(keys) ==
    Obj(<< <<K_items, List(<<Obj([i \in 1..Len(keys) |-> <<keys[i], Str(<<"string">>)>>])>>)>> >>)

AutoSchemas ==
    {SchemaIdName, SchemaPaths, Null,
     SchemaOf(<< <<"source">> >>),
     SchemaOf(<< <<"sku">>, <<"id">> >>),
     List(<<Obj(<< <<(<<"id">>), Str(<<"string">>)>> >>)>>)}

InitAuto ==
    /\ pc = "input"
    /\ payload \in AutoPayloads
    /\ target_schema \in AutoSchemas
    /\ mapping_spec = Null
    /\ target_paths = <<>>
    /\ mapping_agent = Null
    /\ environ = NoEnviron
    /\ agent_options = NoOptions
    /\ current_mapping = Null
    /\ aliased = FALSE
    /\ iteration = 0
    /\ issues = NoIssues
    /\ invoke_count = 0
    /\ raw_texts = <<>>
    /\ ExecIdle
    /\ RepairIdle
    /\ ServiceIdle

\* roaster_mapping = _auto_mapping_spec(payload, target_schema)
AutoMappingSpecCall ==
    /\ pc = "input"
    /\ roaster_mapping' = AutoMappingSpec(payload, target_schema)
    /\ pc' = "mapped"
    /\ UNCHANGED <<execVarsButSpec, mapping_spec, agentVars, repairs, validation_errors,
                   allowed_targets>>
    /\ UNCHANGED serviceVars

\* validate_mapping_spec applied to the spec the auto-mapper returned
ValidateAutoMapped ==
    /\ pc = "mapped"
    /\ validation_errors' = ValidateMappingSpec(roaster_mapping)
    /\ pc' = "auto validated"
    /\ UNCHANGED <<execVarsButSpec, mapping_spec, agentVars, roaster_mapping, repairs,
                   allowed_targets>>
    /\ UNCHANGED serviceVars

NextAuto == AutoMappingSpecCall \/ ValidateAutoMapped

SpecAuto == InitAuto /\ [][NextAuto]_vars

\* C6: the spec _auto_mapping_spec produces is accepted by
\* validate_mapping_spec as produced, whatever the payload and the target
\* schema.
C6_AutoMappedIsValid ==
    pc = "auto validated" => validation_errors = <<>>

----------------------------------------------------------------------------
(* Properties of execute_mapping (Spec) *)

\* the partner spec decides the base mapping (its mappings are a non-empty
\* list or object)
PartnerUsable ==
    /\ Truthy(mapping_spec)
    /\ Truthy(Get(mapping_spec, K_mappings))
    /\ Get(mapping_spec, K_mappings).t \in {"list", "obj"}

\* mappings.items.map of a nested spec, {} when the spec has none
ItemsMap(spec) ==
    LET m == Get(Get(Get(spec, K_mappings), K_items), K_map)
    IN IF m.t = "obj" THEN m ELSE EmptyObj

\* the rows of the payload under "items"
Rows(pl) == IF IsList(Get(pl, K_items)) THEN Get(pl, K_items).v ELSE <<>>

ExpectedStraight ==
    Obj(<< <<K_items,
             List(<< Obj(<< <<K_items, Row(Str(<<"1">>), Str(<<"A">>))>> >>),
                     Obj(<< <<K_items, Row(Str(<<"2">>), Str(<<"B">>))>> >>) >>)>> >>)

\* C2: the pipeline run on the payload, target schema and spec of the
\* straight-mapping scenario returns exactly
\* {items:[{items:{id:1,name:A}},{items:{id:2,name:B}}]}: every output item
\* holds the mapped fields under "items" and no other key.
C2_StraightMapping ==
    (/\ pc = "done"
     /\ payload = PayloadStraight
     /\ target_schema = SchemaIdName
     /\ mapping_spec = SpecStraight
     /\ roaster_mapping = SpecStraight)
    => Resolve(heap, result.val) = ExpectedStraight

\* C7: whatever the partner spec, the payload, the target schema and the
\* agent options, the spec _prepare_roaster_mapping returns is accepted by
\* validate_mapping_spec.
C7_PreparedIsValidated ==
    pc = "prepared" => ValidateMappingSpec(roaster_mapping) = <<>>

\* every target path is the key of a leaf of the reply whose source names a
\* key that holds a value in every row of the payload
ReplyYieldsValues ==
    /\ raw_texts # <<>>
    /\ raw_texts[1] = Text(<<JsonDumps(SpecStraight)>>)
    /\ Rows(payload) # <<>>
    /\ \A i \in 1..Len(target_paths) :
          /\ HasKey(ItemsMap(SpecStraight), target_paths[i])
          /\ \A j \in 1..Len(Rows(payload)) :
                 LET source == Get(Get(ItemsMap(SpecStraight), target_paths[i]), K_source)
                     value == Get(Rows(payload)[j], Drop(source.v, 2))
                 IN ~IsNone(value) /\ value # Str(<<>>)

\* C8: with the agent enabled, a model configured and at least two
\* iterations allowed, when the base spec is the partner's spec with all
\* sources null and the first reply of the model maps every target path to a
\* source that yields values, the loop returns that reply's spec with an
\* empty issue summary after one completed iteration and exactly one call of
\* the model.
C8_RefinementConverges ==
    (/\ pc = "prepared"
     /\ agent_options.enabled
     /\ agent_options.max_iterations >= 2
     /\ BedrockModelId(environ)
     /\ mapping_spec = SpecAllNull
     /\ ReplyYieldsValues)
    => /\ invoke_count = 1
       /\ iteration = 1
       /\ ~HasMappingIssues(issues)
       /\ PyEq(roaster_mapping, SpecStraight)

C8_Witness ==
    /\ pc = "prepared"
    /\ agent_options.enabled
    /\ agent_options.max_iterations >= 2
    /\ BedrockModelId(environ)
    /\ mapping_spec = SpecAllNull
    /\ ReplyYieldsValues
    /\ invoke_count = 1
    /\ PyEq(roaster_mapping, SpecStraight)

\* C9 as stated: with the agent enabled and maxIterations = n the model is
\* called at most n times, whether or not a partner spec is supplied, and
\* with n = 1, a model configured and issues that remain it is called
\* exactly once.
C9_OracleBound ==
    agent_options.enabled =>
        /\ invoke_count <= agent_options.max_iterations
        /\ (/\ pc = "prepared"
            /\ agent_options.max_iterations = 1
            /\ BedrockModelId(environ)
            /\ HasMappingIssues(issues)) => invoke_count = 1

\* C9 amended: with the agent enabled and maxIterations = n the model is
\* called at most n times when the partner spec supplies the base mapping
\* and at most n + 1 times otherwise (one call generates the base mapping
\* before the loop); with n = 1, a partner spec that supplies the base
\* mapping, a model configured and issues that remain it is called exactly
\* once.
C9_OracleBoundAmended ==
    agent_options.enabled =>
        /\ invoke_count <= agent_options.max_iterations + (IF PartnerUsable THEN 0 ELSE 1)
        /\ (/\ pc = "prepared"
            /\ agent_options.max_iterations = 1
            /\ PartnerUsable
            /\ BedrockModelId(environ)
            /\ HasMappingIssues(issues)) => invoke_count = 1

C9_Witness ==
    /\ pc = "prepared"
    /\ agent_options.enabled
    /\ agent_options.max_iterations = 1
    /\ PartnerUsable
    /\ BedrockModelId(environ)
    /\ HasMappingIssues(issues)
    /\ invoke_count = 1

\* the leaves of `before` whose source is null and that `after` keeps have a
\* null source in `after`
NullSourcesKept(before, after) ==
    \A i \in 1..Len(ItemsMap(before).v) :
        LET key == ItemsMap(before).v[i][1]
            leaf == ItemsMap(before).v[i][2]
        IN /\ leaf.t = "obj" /\ HasKey(leaf, K_source) /\ IsNone(Get(leaf, K_source))
              /\ HasKey(ItemsMap(after), key)
           => IsNone(Get(Get(ItemsMap(after), key), K_source))

\* the agent is enabled, the environment names no model (BEDROCK_MODEL_ID
\* is unset or empty) and the partner spec supplies the base mapping
OracleUnavailable ==
    /\ agent_options.enabled
    /\ ~environ.model
    /\ PartnerUsable

\* C10: with the agent enabled, no model configured and a partner spec that
\* has issues, the model is never called, and the first iteration of the
\* loop, having computed its issue summary, returns the base mapping as
\* repaired against the target paths, the null sources it keeps still null.
C10_OracleUnavailable ==
    /\ [](OracleUnavailable => (invoke_count = 0 /\ pc # "invoke"))
    /\ [][(/\ pc = "loop"
           /\ OracleUnavailable
           /\ HasMappingIssues(issues'))
          => /\ iteration = 0
             /\ pc' = "prepared"
             /\ invoke_count' = 0
             /\ roaster_mapping' =
                    RepairMappingSpec(current_mapping,
                                      Allowed(SeqToSet(target_paths))).spec
             /\ NullSourcesKept(current_mapping, roaster_mapping')]_vars

C10_Witness ==
    /\ pc = "prepared"
    /\ OracleUnavailable
    /\ HasMappingIssues(issues)
    /\ invoke_count = 0
    /\ issues.missingSourceFields # <<>>
    /\ \E i \in 1..Len(ItemsMap(roaster_mapping).v) :
          IsNone(Get(ItemsMap(roaster_mapping).v[i][2], K_source))

\* the reply is empty, holds no JSON object Repair can recover, or is a spec
\* that after Repair equals the current spec
StopReply(reply) ==
    \/ reply = Null
    \/ reply = Text(<<>>)
    \/ /\ reply.t = "text"
       /\ \/ IsNone(RepairMappingSpec(reply, Allowed(SeqToSet(target_paths))).spec)
          \/ PyEq(RepairMappingSpec(reply, Allowed(SeqToSet(target_paths))).spec,
                  current_mapping)

\* C11: in an iteration in which the model returns empty text, text from
\* which Repair recovers no JSON object, or a spec that after Repair equals
\* the current spec, the loop stops at once without raising and returns the
\* current spec unchanged; once the loop has returned the model is not
\* called again.
C11_StopsWithoutImprovement ==
    /\ [][(pc = "invoke" /\ StopReply(raw_texts'[Len(raw_texts')]))
          => /\ pc' = "prepared"
             /\ roaster_mapping' = current_mapping
             /\ current_mapping' = current_mapping
             /\ iteration' = iteration
             /\ result' = result
             /\ invoke_count' = invoke_count + 1]_vars
    /\ [][(pc \in {"prepared", "done", "raised"}) => (invoke_count' = invoke_count)]_vars

\* the loop has stopped on a reply that repeats the current spec, with an
\* iteration left
C11_Witness ==
    /\ pc = "prepared"
    /\ agent_options.enabled
    /\ agent_options.max_iterations >= 2
    /\ iteration = 0
    /\ invoke_count = 1
    /\ raw_texts = <<Text(<<JsonDumps(SpecAllNull)>>)>>
    /\ PyEq(RepairMappingSpec(raw_texts[1], Allowed(SeqToSet(target_paths))).spec,
            current_mapping)
    /\ roaster_mapping = current_mapping
    /\ HasMappingIssues(issues)

----------------------------------------------------------------------------
(* _parse_mapping_agent_options on its own (SpecOptions) *)

K_enabled == <<"enabled">>

K_maxIterations == <<"maxIterations">>

K_max_iterations == <<"max_iterations">>

\* the mappingAgent values of a request: absent, not an object, and objects
\* with and without a limit under either key
OptionInputs ==
    {Null, Str(<<"on">>), List(<<>>), EmptyObj,
     Obj(<< <<K_enabled, Bool(TRUE)>> >>),
     Obj(<< <<K_max_iterations, Num(4)>> >>),
     Obj(<< <<K_maxIterations, Num(2)>>, <<K_max_iterations, Num(4)>> >>)}
    \cup {AgentOn(n) : n \in {Num(0), Num(1), Num(5), Num(9), Num(0 - 2), Null, Bool(TRUE),
                              Str(<<"3">>), Str(<<"-", "1">>), Str(<<"a">>), Str(<<>>),
                              List(<<>>)}}

\* the values of MAPPING_AGENT_ENABLED (its truth) and
\* MAPPING_AGENT_MAX_ITERATIONS (Null when unset)
OptionEnvirons ==
    {[enabled |-> b, max |-> m, model |-> FALSE] :
        b \in BOOLEAN,
        m \in {Null, Str(<<>>), Str(<<"0">>), Str(<<"2">>), Str(<<"9">>), Str(<<"1", "2">>),
               Str(<<"a">>)}}

InitOptions ==
    /\ pc = "options"
    /\ mapping_agent \in OptionInputs
    /\ environ \in OptionEnvirons
    /\ agent_options = NoOptions
    /\ payload = Null
    /\ mapping_spec = Null
    /\ target_schema = Null
    /\ target_paths = <<>>
    /\ current_mapping = Null
    /\ aliased = FALSE
    /\ iteration = 0
    /\ issues = NoIssues
    /\ invoke_count = 0
    /\ raw_texts = <<>>
    /\ ExecIdle
    /\ RepairIdle
    /\ ServiceIdle

\* agent_options = _parse_mapping_agent_options(mapping_agent)
ParseMappingAgentOptionsCall ==
    /\ pc = "options"
    /\ agent_options' = ParseMappingAgentOptions(mapping_agent, environ)
    /\ pc' = "parsed"
    /\ UNCHANGED <<execVarsButSpec, mapping_spec, repairVars, target_schema, mapping_agent,
                   environ, current_mapping, aliased, iteration, issues, invoke_count,
                   raw_texts>>
    /\ UNCHANGED serviceVars

NextOptions == ParseMappingAgentOptionsCall

SpecOptions == InitOptions /\ [][NextOptions]_vars

\* neither the options nor the environment supplies a limit
NoLimitSupplied ==
    /\ ~(/\ mapping_agent.t = "obj"
         /\ HasKey(mapping_agent, K_maxIterations) \/ HasKey(mapping_agent, K_max_iterations))
    /\ environ.max = Null

\* C12: whatever the agent options and the environment, the iteration limit
\* the loop is given (the agent being enabled) is an integer from 1 to 5, and
\* it is 3 when no limit is supplied.
C12_IterationLimit ==
    (pc = "parsed" /\ agent_options.enabled) =>
        /\ agent_options.max_iterations \in MinIterations..MaxIterations
        /\ NoLimitSupplied => agent_options.max_iterations = DefaultMaxIterations

----------------------------------------------------------------------------
(* Properties of the relocations of repair_mapping_spec (SpecRepair) *)

\* the spec a repair works on: the argument when it is a dict, the object
\* found in it when it is a text
RepairedInput == CoerceMappingSpec(mapping_spec).spec

\* the paths of a leaf's source that begin with a feed-level prefix, in
\* order (an arithmetic or quoted expression is not a path)
FeedPathsOf(source) ==
    IF IsStr(source) THEN FeedSources(DropExpressions(<<source>>))
    ELSE IF IsList(source) THEN FeedSources(DropExpressions(source.v))
    ELSE <<>>

\* <<target, first feed-level path>> for every leaf of the map block that
\* Repair keeps and whose source holds a feed-level path
RECURSIVE FeedLeaves(_, _)
FeedLeaves(kvs, allowed) ==
    IF kvs = <<>> THEN <<>>
    ELSE (LET spec == kvs[1][2]
              target == NormalizeTargetKey(kvs[1][1])
          IN IF spec.t # "obj" \/ (allowed.given /\ target \notin allowed.set) THEN <<>>
             ELSE IF HasKey(spec, K_path) /\ HasKey(spec, K_map) /\ Get(spec, K_map).t = "obj"
             THEN FeedLeaves(Get(spec, K_map).v, NoTargets)
             ELSE IF FeedPathsOf(Get(spec, K_source)) # <<>>
             THEN << <<target, FeedPathsOf(Get(spec, K_source))[1]>> >>
             ELSE <<>>)
         \o FeedLeaves(Tail(kvs), allowed)

\* no leaf of the map block has a source beginning with a feed-level prefix
RECURSIVE NoFeedPathLeft(_)
NoFeedPathLeft(kvs) ==
    \A i \in 1..Len(kvs) :
        LET spec == kvs[i][2]
            source == Get(spec, K_source)
        IN spec.t = "obj" =>
             IF HasKey(spec, K_path) /\ HasKey(spec, K_map) /\ Get(spec, K_map).t = "obj"
             THEN NoFeedPathLeft(Get(spec, K_map).v)
             ELSE /\ IsStr(source) => ~StartsWithFeedPrefix(source.v)
                  /\ IsList(source) =>
                        \A j \in 1..Len(source.v) :
                            IsStr(source.v[j]) => ~StartsWithFeedPrefix(source.v[j].v)

\* C13: for every leaf of an item-context map block whose source, a string
\* or a list, holds a path beginning with a feed-level prefix, Repair takes
\* every such path out of the leaf and broadcast[target] becomes
\* {source: the first such path}.
C13_FeedRelocation ==
    [][(pc = "input" /\ pc' = "repaired" /\ ~IsNone(RepairedInput))
       => LET moved == FeedLeaves(ItemsMap(RepairedInput).v, allowed_targets)
          IN moved # <<>> =>
               /\ NoFeedPathLeft(ItemsMap(roaster_mapping').v)
               /\ \A i \in 1..Len(moved) :
                      Get(Get(roaster_mapping', K_broadcast), moved[i][1])
                          = Obj(<< <<K_source, moved[i][2]>> >>)]_vars

\* the first source of a leaf
PrimarySource(source) ==
    IF IsStr(source) THEN source
    ELSE IF IsList(source) /\ source.v # <<>> THEN source.v[1]
    ELSE Null

\* a string that does not start with `$`
IsConstant(s) == IsStr(s) /\ ~StartsWith(s.v, DOLLAR)

\* every leaf of the map block kvs that Repair keeps and whose primary
\* source is a constant has a null source in the repaired block and its
\* constant in the repaired defaults
RECURSIVE ConstantsMoved(_, _, _, _)
ConstantsMoved(kvs, repaired_map, repaired_defaults, allowed) ==
    \A i \in 1..Len(kvs) :
        LET spec == kvs[i][2]
            target == NormalizeTargetKey(kvs[i][1])
        IN (spec.t = "obj" /\ ~(allowed.given /\ target \notin allowed.set)) =>
             IF HasKey(spec, K_path) /\ HasKey(spec, K_map) /\ Get(spec, K_map).t = "obj"
             THEN ConstantsMoved(Get(spec, K_map).v, Get(Get(repaired_map, target), K_map),
                                 repaired_defaults, NoTargets)
             ELSE IsConstant(PrimarySource(Get(spec, K_source))) =>
                    /\ HasKey(repaired_map, target)
                    /\ HasKey(Get(repaired_map, target), K_source)
                    /\ Get(Get(repaired_map, target), K_source) = Null
                    /\ Get(repaired_defaults, target) = PrimarySource(Get(spec, K_source))

\* the value the broadcast section of the repaired spec yields for a target
BroadcastValue(target) ==
    LET spec == Get(Get(roaster_mapping, K_broadcast), target)
    IN IF spec.t # "obj" THEN Null
       ELSE EvaluateField(Load(<<>>, payload).heap, Load(<<>>, payload).val, spec)

\* the defaults of the repaired spec whose leaf reads nothing, as Repair
\* leaves a leaf whose constant it moved
ConstantDefaults ==
    {i \in 1..Len(Get(roaster_mapping, K_defaults).v) :
        /\ IsStr(Get(roaster_mapping, K_defaults).v[i][2])
        /\ LET leaf == Get(ItemsMap(roaster_mapping), Get(roaster_mapping, K_defaults).v[i][1])
           IN leaf.t = "obj" => IsNone(Get(leaf, K_source))}

\* C14: for every leaf whose primary source is a string that does not start
\* with `$`, Repair sets the leaf's source to null and defaults[target] to
\* that string, and executing the repaired spec emits the constant at the
\* target in every output item for which no mapping supplies a value.
C14_ConstantToDefault ==
    /\ [][(pc = "input" /\ pc' = "repaired" /\ ~IsNone(RepairedInput))
          => ConstantsMoved(ItemsMap(RepairedInput).v, ItemsMap(roaster_mapping'),
                            Get(roaster_mapping', K_defaults), allowed_targets)]_vars
    /\ []((pc = "executed" /\ result.err = "")
          => \A i \in ConstantDefaults : \A n \in 1..Len(ReturnedItems) :
                LET entry == Get(roaster_mapping, K_defaults).v[i]
                    emitted == GetNested(heap, ReturnedItems[n], entry[1])
                IN IF IsNone(BroadcastValue(entry[1])) THEN emitted = entry[2]
                   ELSE emitted = BroadcastValue(entry[1]))

\* the constant of a list source was moved, the feed held no value for the
\* target, and every output item holds the constant
C14_Witness ==
    /\ pc = "executed"
    /\ result.err = ""
    /\ payload = PayloadSparse
    /\ Len(ReturnedItems) = 3
    /\ Get(Get(roaster_mapping, K_defaults), <<"name">>) = Str(<<"USD">>)
    /\ Get(Get(roaster_mapping, K_defaults), <<"sku">>) = Str(<<"USD">>)
    /\ Get(Get(ItemsMap(roaster_mapping), <<"name">>), K_source) = Null
    /\ \A n \in 1..3 : GetNested(heap, ReturnedItems[n], <<"name">>) = Str(<<"USD">>)

----------------------------------------------------------------------------
(* _evaluate_path on its own (SpecPath) *)

\* an object with keys that begin with `$`
PayloadRefs ==
    Obj(<< <<(<<"a">>), Obj(<< <<(<<"$", "ref">>), Num(1)>>, <<(<<"ref">>), Num(2)>>,
                               <<(<<"$">>), Obj(<< <<(<<"b">>), Num(3)>> >>)>> >>)>>,
           <<K_items, List(<<List(<<Obj(<< <<(<<"id">>), Num(4)>> >>)>>),
                             Obj(<< <<(<<"id">>), Null>> >>)>>)>> >>)

PathRoots == {PayloadRich, PayloadList, PayloadSparse, PayloadRefs, Str(<<"x">>)}

\* paths with and without a root, with key, key[] and key[*] segments, the
\* bare array at the root and after a key, and keys that begin with `$`
PathInputs ==
    { <<"$">>, <<"$", ".">>, <<"id">>,
      <<"$", ".", "items", "[", "]">>,
      <<"$", ".", "items", "[", "]", ".", "id">>,
      <<"$", ".", "items", "[", "*", "]", ".", "tags", "[", "]", ".", "sku">>,
      <<"$", ".", "items", "[", "]", ".", "tags", "[", "*", "]">>,
      <<"$", ".", "items", "[", "]", ".", "o", ".", "x">>,
      <<"$", ".", "items", ".", "id">>,
      <<"items", "[", "]", ".", "name">>,
      <<"$", "items", "[", "]", ".", "[", "]", ".", "id">>,
      <<"$", "[", "]">>,
      <<"$", "[", "*", "]", ".", "o", ".", "b">>,
      <<"$", ".", "[", "]", ".", "id">>,
      <<"$", ".", "meta", ".", "source">>,
      <<"$", ".", "a", ".", "ref">>,
      <<"$", ".", "a", ".", "$", "ref">>,
      <<"$", ".", "a", ".", "$", ".", "b">> }

InitPath ==
    /\ pc = "path"
    /\ payload \in PathRoots
    /\ heap = Load(<<>>, payload).heap
    /\ root = Load(<<>>, payload).val
    /\ target_paths \in {<<path>> : path \in PathInputs}
    /\ mapping_spec = Null
    /\ canonical_paths = <<>>
    /\ result = NoResult
    /\ AgentIdle
    /\ RepairIdle
    /\ ServiceIdle

\* self._evaluate_path(root, path)
EvaluatePathCall ==
    /\ pc = "path"
    /\ result' = [err |-> "", val |-> EvaluatePath(heap, root, Str(target_paths[1]))]
    /\ pc' = "evaluated"
    /\ UNCHANGED <<payload, heap, root, mapping_spec, target_paths, canonical_paths>>
    /\ UNCHANGED <<agentVars, repairVars>>
    /\ UNCHANGED serviceVars

NextPath == EvaluatePathCall

SpecPath == InitPath /\ [][NextPath]_vars

\* the matches of a path against each of the values, in order
RECURSIVE EvaluateEach(_, _, _)
EvaluateEach(h, values, path) ==
    IF values = <<>> THEN <<>>
    ELSE EvaluatePath(h, Head(values), path).v \o EvaluateEach(h, Tail(values), path)

DotPositions(path) == {d \in 1..Len(path) : path[d] = "."}

PathBefore(path, d) == Str(SubSeq(path, 1, d - 1))

PathAfter(path, d) == Str(SubSeq(path, d + 1, Len(path)))

\* evaluating the part after the dot d against each match of the part
\* before it gives the matches of the whole path
ComposesAt(d) ==
    EvaluateEach(heap, EvaluatePath(heap, root, PathBefore(target_paths[1], d)).v,
                 PathAfter(target_paths[1], d)) = result.val.v

\* C15: for every root value, every path of the subset and every dot at
\* which the path splits into p1 and p2, the matches of p2 against each
\* match of p1, concatenated in order, are the matches of the whole path.
C15_PathComposes ==
    pc = "evaluated" => \A d \in DotPositions(target_paths[1]) : ComposesAt(d)

\* C15 amended: the same for every dot that is not followed by `$`; the
\* part after such a dot is read as a path with a root of its own.
C15_PathComposesAmended ==
    pc = "evaluated" =>
        \A d \in DotPositions(target_paths[1]) :
            ~StartsWith(PathAfter(target_paths[1], d).v, DOLLAR) => ComposesAt(d)

\* two arrays are expanded, and the path composes at each of its three dots
C15_Witness ==
    /\ pc = "evaluated"
    /\ payload = PayloadRich
    /\ target_paths = << <<"$", ".", "items", "[", "*", "]", ".", "tags", "[", "]", ".", "sku">> >>
    /\ result.val = List(<<Str(<<"s1">>), Str(<<"s2">>)>>)
    /\ Cardinality(DotPositions(target_paths[1])) = 3
    /\ \A d \in DotPositions(target_paths[1]) : ComposesAt(d)

----------------------------------------------------------------------------
(* SchemaStructureExtractor.extract called twice on equal values           *)
(* (SpecExtract)                                                           *)

\* the orders in which three keys can be inserted
KeyOrders ==
    {<<1, 2, 3>>, <<1, 3, 2>>, <<2, 1, 3>>, <<2, 3, 1>>, <<3, 1, 2>>, <<3, 2, 1>>}

Reordered(kvs, order) == Obj([i \in 1..Len(order) |-> kvs[order[i]]])

\* objects with the keys "a", "id" and one of "b", "a.b" in every insertion
\* order: the key "a.b" is rendered as the path of key "b" under key "a"
ExtractObjects ==
    {Reordered(<< <<(<<"a">>), a>>, <<key, Str(<<"x">>)>>, <<(<<"id">>), id>> >>, order) :
        key \in {<<"b">>, <<"a", ".", "b">>},
        a \in {Obj(<< <<(<<"b">>), Num(1)>> >>), List(<<Num(1), Null>>),
               List(<<Obj(<< <<(<<"name">>), Null>>, <<(<<"b">>), Bool(TRUE)>> >>)>>)},
        id \in {Null, List(<<>>)},
        order \in KeyOrders}

\* a list longer than max_items_per_array whose last element has a key of
\* its own
PayloadLong ==
    List([i \in 1..(MaxItemsPerArray + 1) |->
            IF i <= MaxItemsPerArray THEN Obj(<< <<(<<"id">>), Num(i)>> >>)
            ELSE Obj(<< <<(<<"name">>), S_A>> >>)])

\* arrays that hold primitives next to objects and arrays, under a key and
\* at the root
MixedArrays ==
    {List(<<Num(1), EmptyObj>>), List(<<EmptyObj, Num(1)>>),
     List(<<Num(1), List(<<>>)>>), List(<<List(<<>>), Num(1)>>),
     List(<<S_A, Num(1)>>), List(<<Null, Bool(TRUE), Obj(<< <<(<<"id">>), Num(1)>> >>)>>),
     List(<<Obj(<< <<(<<"id">>), Num(1)>> >>), S_A, Null>>),
     List(<<Num(1), List(<<Num(2)>>)>>)}

ExtractInputs ==
    ExtractObjects \cup Payloads \cup ExecPayloads \cup MixedArrays \cup
    {Obj(<< <<(<<"x">>), array>> >>) : array \in MixedArrays} \cup
    {PayloadFeedKey, PayloadData, PayloadLong, Null, Str(<<"x">>), EmptyObj, List(<<>>),
     List(<<List(<<Num(1)>>), List(<<S_A>>)>>)}

InitExtract ==
    /\ pc = "value"
    /\ payload \in ExtractInputs
    /\ result = NoResult
    /\ heap = <<>>
    /\ root = Null
    /\ mapping_spec = Null
    /\ target_paths = <<>>
    /\ canonical_paths = <<>>
    /\ AgentIdle
    /\ RepairIdle
    /\ ServiceIdle

\* SchemaStructureExtractor(max_items_per_array=10).extract(payload)
ExtractCall ==
    /\ pc = "value"
    /\ result' = [err |-> "", val |-> Extract(payload)]
    /\ pc' = "extracted"
    /\ UNCHANGED <<payload, heap, root, mapping_spec, target_paths, canonical_paths>>
    /\ UNCHANGED <<agentVars, repairVars>>
    /\ UNCHANGED serviceVars

\* a second extraction, of a value equal to the first one
ExtractAgain ==
    /\ pc = "extracted"
    /\ \E equal \in {x \in ExtractInputs : PyEq(x, payload)} :
          /\ payload' = equal
          /\ result' = [err |-> "", val |-> Extract(equal)]
    /\ pc' = "extracted again"
    /\ UNCHANGED <<heap, root, mapping_spec, target_paths, canonical_paths>>
    /\ UNCHANGED <<agentVars, repairVars>>
    /\ UNCHANGED serviceVars

NextExtract == ExtractCall \/ ExtractAgain

SpecExtract == InitExtract /\ [][NextExtract]_vars

\* the keys iterate in ascending order
KeysAscending(d) ==
    \A i \in 1..Len(d.v) : \A j \in 1..Len(d.v) : i < j => StrLess(d.v[i][1], d.v[j][1])

\* no key of the value holds a dot or a pair of brackets
RECURSIVE PlainKeys(_)
PlainKeys(x) ==
    IF x.t = "obj"
    THEN \A i \in 1..Len(x.v) :
            /\ ~Contains(x.v[i][1], <<".">>)
            /\ ~Contains(x.v[i][1], BR)
            /\ PlainKeys(x.v[i][2])
    ELSE IF x.t = "list" THEN \A i \in 1..Len(x.v) : PlainKeys(x.v[i])
    ELSE TRUE

\* C16: two extractions of equal JSON values with the same maxItemsPerArray
\* return equal path-to-type maps whose keys iterate in the same, ascending
\* sorted path order.
C16_ExtractDeterministic ==
    /\ []((pc \in {"extracted", "extracted again"}) => KeysAscending(result.val))
    /\ [][(pc = "extracted" /\ pc' = "extracted again") => (result' = result)]_vars

\* C16 amended: the same for equal values whose object keys hold no dot and
\* no `[]`; with such a key two members of an object can be rendered as
\* one path, and the type kept for it is that of the member inserted last.
C16_ExtractDeterministicAmended ==
    /\ []((pc \in {"extracted", "extracted again"}) => KeysAscending(result.val))
    /\ [][(pc = "extracted" /\ pc' = "extracted again" /\ PlainKeys(payload))
          => (result' = result)]_vars

\* the second extraction was of an object whose keys were inserted in
\* descending order, and gave its three paths in ascending order
C16_Witness ==
    /\ pc = "extracted again"
    /\ payload = Obj(<< <<(<<"id">>), List(<<>>)>>, <<(<<"b">>), Str(<<"x">>)>>,
                        <<(<<"a">>), Obj(<< <<(<<"b">>), Num(1)>> >>)>> >>)
    /\ PlainKeys(payload)
    /\ result.val = Obj(<< <<(<<"$", ".", "a", ".", "b">>), Str(<<"number">>)>>,
                           <<(<<"$", ".", "b">>), Str(<<"string">>)>>,
                           <<(<<"$", ".", "id", "[", "]">>), Str(<<"array (empty)">>)>> >>)
    /\ KeysAscending(result.val)

----------------------------------------------------------------------------
(* _evaluate_field of roaster_mapping_executor.MappingExecutor, the        *)
(* executor mapping_service imports, for a leaf with a transform           *)
(* (SpecTransform)                                                         *)

K_v == <<"v">>

LegacyTransforms ==
    {Str(<<"number">>), Str(<<"integer">>), Str(<<"string">>), Str(<<"date">>),
     Str(<<"boolean">>)}

TransformValues ==
    {Num(0), Num(5), Str(<<"5">>), Str(<<"a">>), Str(<<"True">>), Str(<<"no">>), Str(<<>>),
     Bool(TRUE), Bool(FALSE), Null, Obj(<< <<(<<"k">>), Num(1)>> >>),
     List(<<Str(<<"1">>), Null, Num(2)>>), List(<<Bool(TRUE), Str(<<"a">>)>>)}

\* match maps with and without a default
MatchMaps ==
    {Obj(<< <<(<<"a">>), Str(<<"x">>)>>, <<(<<"5">>), Str(<<"five">>)>>,
            <<(<<"True">>), Str(<<"yes">>)>>, <<K_default, Str(<<"y">>)>> >>),
     Obj(<< <<(<<"a">>), Str(<<"x">>)>> >>)}

\* leaves with a match map, with and without a transform
MatchLeaves ==
    {Obj(<< <<K_source, Str(<<"$", ".", "v">>)>> >> \o transform \o << <<K_match, match>> >>) :
        transform \in {<<>>, << <<K_transform, Str(<<"to_int">>)>> >>},
        match \in MatchMaps}

InitTransform ==
    /\ pc = "leaf"
    /\ payload \in {Obj(<< <<K_v, value>> >>) : value \in TransformValues}
    /\ heap = Load(<<>>, payload).heap
    /\ root = Load(<<>>, payload).val
    /\ mapping_spec \in {Obj(<< <<K_source, Str(<<"$", ".", "v">>)>>, <<K_transform, name>> >>) :
                            name \in LegacyTransforms} \cup MatchLeaves
    /\ target_paths = <<>>
    /\ canonical_paths = <<>>
    /\ result = NoResult
    /\ AgentIdle
    /\ RepairIdle
    /\ ServiceIdle

\* self._evaluate_field(source, spec)
EvaluateFieldCall ==
    /\ pc = "leaf"
    /\ result' = [err |-> "", val |-> EvaluateField(heap, root, mapping_spec)]
    /\ pc' = "field"
    /\ UNCHANGED <<payload, heap, root, mapping_spec, target_paths, canonical_paths>>
    /\ UNCHANGED <<agentVars, repairVars>>
    /\ UNCHANGED serviceVars

NextTransform == EvaluateFieldCall

SpecTransform == InitTransform /\ [][NextTransform]_vars

\* the transform a legacy name stands for
Synonym(transform) ==
    CASE transform = Str(<<"number">>) -> Str(<<"to_float">>)
      [] transform = Str(<<"integer">>) -> Str(<<"to_int">>)
      [] transform \in {Str(<<"string">>), Str(<<"date">>)} -> Str(<<"to_string">>)
      [] transform = Str(<<"boolean">>) -> Str(<<"to_boolean">>)
      [] OTHER -> transform

\* C17: for every input value, a leaf with transform `number` evaluates to
\* the same result as with `to_float`, `integer` as `to_int`, `string` and
\* `date` as `to_string`, and `boolean` as `to_boolean`.
C17_LegacyTransforms ==
    pc = "field" =>
        result.val = EvaluateField(heap, root,
                                   Put(mapping_spec, K_transform,
                                       Synonym(Get(mapping_spec, K_transform))))

\* C18: repair_mapping_spec does not modify the spec object passed to it:
\* after the call the input's defaults, broadcast and mappings.items.map are
\* as they were before it.
C18_InputNotModified ==
    [][(pc = "input" /\ pc' = "repaired" /\ mapping_spec.t = "obj")
       => /\ Get(mapping_spec', K_defaults) = Get(mapping_spec, K_defaults)
          /\ Get(mapping_spec', K_broadcast) = Get(mapping_spec, K_broadcast)
          /\ ItemsMap(mapping_spec') = ItemsMap(mapping_spec)]_vars

----------------------------------------------------------------------------
(* _summarize_mapping_issues for specs with up to MaxLeaves leaves         *)
(* (SpecSummary)                                                           *)

\* the widest map: two leaves more than an issue list keeps
MaxLeaves == IssueCap + 2

LeafCounts == {0, 1, IssueCap - 1, IssueCap, IssueCap + 1, MaxLeaves}

KeyLetters == <<"a", "b", "c", "g", "h", "k", "x">>

\* the targets "aa", "ab", ..., "xx"
WideKey(i) ==
    <<KeyLetters[((i - 1) \div Len(KeyLetters)) + 1], KeyLetters[((i - 1) % Len(KeyLetters)) + 1]>>

WideKeys(n) == [i \in 1..n |-> WideKey(i)]

WideMap(n, leaf) == Obj([i \in 1..n |-> <<WideKey(i), leaf>>])

\* a leaf without a source, one that reads the feed, one with values in
\* one row of three and one with values in every row
WideLeaves ==
    {Leaf(Null), Leaf(FeedSource), Src(<<"$", ".", "name">>), Src(<<"$", ".", "id">>)}

InitSummary ==
    /\ pc = "spec"
    /\ \E n \in LeafCounts :
          /\ mapping_spec \in {Spec4Of(ItemsArray, WideMap(n, leaf), EmptyObj, EmptyObj) :
                                  leaf \in WideLeaves}
          /\ target_paths \in {<<>>, WideKeys(n)}
    /\ payload \in Payloads
    /\ heap = <<>>
    /\ root = Null
    /\ canonical_paths = <<>>
    /\ result = NoResult
    /\ AgentIdle
    /\ RepairIdle
    /\ ServiceIdle

\* issues, _ = _summarize_mapping_issues(mapping_spec=..., payload=...,
\* target_paths=...)
SummarizeCall ==
    /\ pc = "spec"
    /\ \E r \in {SummarizeMappingIssues(mapping_spec, payload, target_paths)} :
          /\ issues' = r.issues
          /\ heap' = r.heap
          /\ root' = r.root
          /\ payload' = r.payload
          /\ pc' = IF r.raised = "" THEN "summarized" ELSE "raised"
    /\ UNCHANGED <<mapping_spec, target_paths, canonical_paths, result, repairVars>>
    /\ UNCHANGED <<target_schema, mapping_agent, environ, agent_options, current_mapping,
                   aliased, iteration, invoke_count, raw_texts>>
    /\ UNCHANGED serviceVars

NextSummary == SummarizeCall

SpecSummary == InitSummary /\ [][NextSummary]_vars

\* C19: for every spec, payload and canonical path set, every list of the
\* issue summary (validationErrors, missingSourceFields, fieldsWithNoValues,
\* fieldsWithSparseValues) has at most 40 entries.
C19_IssueListsCapped ==
    pc = "summarized" =>
        /\ Len(issues.validationErrors) <= IssueCap
        /\ Len(issues.missingSourceFields) <= IssueCap
        /\ Len(issues.fieldsWithNoValues) <= IssueCap
        /\ Len(issues.fieldsWithSparseValues) <= IssueCap

----------------------------------------------------------------------------
(* The spec of _auto_mapping_spec against its description (SpecAuto) *)

ListFieldNames == <<"items", "data", "records">>

\* the items path of the description: `$[]` for a list, `$.{key}[]` for the
\* first of items, data, records that is a list field, else `$.items[]`
ReferenceItemsPath(pl) ==
    LET fields == {i \in 1..Len(ListFieldNames) :
                      pl.t = "obj" /\ IsList(Get(pl, <<ListFieldNames[i]>>))}
    IN IF pl.t = "list" THEN Str(<<"$", "[", "]">>)
       ELSE IF fields = {} THEN Str(<<"$", ".", "items", "[", "]">>)
       ELSE Str(<<"$", ".", ListFieldNames[CHOOSE i \in fields : \A j \in fields : i <= j],
                  "[", "]">>)

\* the sources the description allows for a target: the fingerprint paths
\* with the target's normalised path, else those with its last segment,
\* else null
ReferenceSources(target, paths) ==
    LET same == {path \in paths : NormalizeTargetPath(path) = target}
        tail == {path \in paths :
                    Last(SplitDots(NormalizeTargetPath(path))) = Last(SplitDots(target))}
    IN IF same # {} THEN {Str(path) : path \in same}
       ELSE IF tail # {} THEN {Str(path) : path \in tail}
       ELSE {Null}

\* C20: the auto-mapper's spec has the items path of the description and
\* exactly one leaf per canonical target, whose source is the fingerprint
\* path with the same normalised path, else a fingerprint path with the
\* same last segment, else null; for {records: [{productId, title}]} and
\* the targets items.id and items.name the path is `$.records[]` and both
\* sources are null.
C20_AutoMappingReference ==
    (pc \in {"mapped", "auto validated"}) =>
        LET items == Get(Get(roaster_mapping, K_mappings), K_items)
            targets == SeqToSet(TargetPaths(target_schema))
        IN /\ Get(items, K_path) = ReferenceItemsPath(payload)
           /\ KeySet(Get(items, K_map)) = targets
           /\ Len(Get(items, K_map).v) = Cardinality(targets)
           /\ \A i \in 1..Len(Get(items, K_map).v) :
                 \E source \in ReferenceSources(Get(items, K_map).v[i][1],
                                                KeySet(Extract(payload))) :
                    Get(items, K_map).v[i][2] = Leaf(source)
           /\ (payload = PayloadRecords /\ target_schema = SchemaIdName)
                 => /\ Get(items, K_path) = Str(<<"$", ".", "records", "[", "]">>)
                    /\ Get(items, K_map) = Obj(<< <<K_id, Leaf(Null)>>, <<K_name, Leaf(Null)>> >>)

\* one source found under the same normalised path and one under the same
\* last segment
C20_Witness ==
    /\ pc = "mapped"
    /\ payload = PayloadRich
    /\ target_schema = SchemaOf(<< <<"sku">>, <<"id">> >>)
    /\ Get(Get(Get(roaster_mapping, K_mappings), K_items), K_path) = ItemsArray
    /\ ItemsMap(roaster_mapping) =
          Obj(<< <<K_id, Src(<<"$", ".", "items", "[", "]", ".", "id">>)>>,
                 <<(<<"items", ".", "sku">>),
                   Src(<<"$", ".", "items", "[", "]", ".", "tags", "[", "]", ".", "sku">>)>> >>)

----------------------------------------------------------------------------
(* _build_roaster_mapping_from_list on legacy specs of its own            *)
(* (SpecConvert)                                                           *)

MatchMap == Obj(<< <<(<<"a">>), Str(<<"x">>)>>, <<K_default, Str(<<"y">>)>> >>)

\* entries of the flat dialect
LegacyEntries ==
    {Obj(<< <<K_target, Str(K_id)>>, <<K_source, Str(<<"id">>)>> >>),
     Obj(<< <<K_target, Str(K_id)>>, <<K_source, Str(<<"$", ".", "id">>)>>,
            <<K_transform, Str(<<"number">>)>>, <<K_required, Bool(TRUE)>> >>),
     Obj(<< <<K_target, Str(K_id)>>, <<K_source, Str(<<"sku">>)>>,
            <<K_transform, Str(<<"date">>)>>, <<K_default, Str(<<"0">>)>> >>),
     Obj(<< <<K_target, Str(K_name)>>, <<K_source, Null>>,
            <<K_default, Str(<<"n/a">>)>> >>),
     Obj(<< <<K_target, Str(K_name)>>,
            <<K_source, List(<<Str(<<"name">>), Str(<<"$", ".", "title">>)>>)>>,
            <<K_match, MatchMap>>, <<K_required, Bool(FALSE)>>, <<K_default, Null>> >>),
     Obj(<< <<K_target, Str(K_name)>>, <<K_source, Str(<<"name">>)>>,
            <<K_transform, Str(<<"to_string">>)>> >>),
     Obj(<< <<K_target, Str(<<"items", ".", "tags">>)>>, <<K_source, Str(<<"tags">>)>>,
            <<K_transform, Str(<<"ensure_array">>)>> >>),
     Obj(<< <<K_target, Num(1)>>, <<K_source, Str(<<"id">>)>>,
            <<K_default, Str(<<"n/a">>)>> >>),
     Obj(<< <<K_source, Str(<<"id">>)>> >>),
     Str(<<"id">>)}

LegacySpecs ==
    {Obj(<< <<K_mappings, List(entries)>> >> \o defaults) :
        entries \in {<<a>> : a \in LegacyEntries}
                        \cup {<<a, b>> : a \in LegacyEntries, b \in LegacyEntries},
        defaults \in {<<>>, << <<K_defaults, Obj(<< <<K_id, Str(<<"1">>)>> >>)>> >>}}

InitConvert ==
    /\ pc = "legacy"
    /\ mapping_spec \in LegacySpecs
    /\ payload \in {PayloadItems, PayloadRecords}
    /\ target_paths = <<>>
    /\ ExecIdle
    /\ AgentIdle
    /\ RepairIdle
    /\ ServiceIdle

\* roaster_mapping = _build_roaster_mapping_from_list(mapping_spec, payload);
\* a non-empty defaults dict of the argument is written to
BuildRoasterMappingFromListCall ==
    /\ pc = "legacy"
    /\ \E built \in {BuildRoasterMappingFromList(mapping_spec, payload)} :
          /\ roaster_mapping' = built.spec
          /\ mapping_spec' = IF Truthy(Get(mapping_spec, K_defaults))
                             THEN Put(mapping_spec, K_defaults, built.defaults)
                             ELSE mapping_spec
    /\ pc' = "converted"
    /\ UNCHANGED <<execVarsButSpec, agentVars, repairs, validation_errors, allowed_targets>>
    /\ UNCHANGED serviceVars

NextConvert == BuildRoasterMappingFromListCall

SpecConvert == InitConvert /\ [][NextConvert]_vars

\* the source of an entry as a leaf carries it: a path without `$` is
\* prefixed with `$.`
CarriedSource(source) ==
    IF IsList(source)
    THEN (IF NormalizedSources(source.v) # <<>> THEN List(NormalizedSources(source.v))
          ELSE Null)
    ELSE NormalizeSourcePath(source)

\* the leaf carries what the entry says
LeafCarries(leaf, entry) ==
    /\ leaf.t = "obj"
    /\ Get(leaf, K_source) = CarriedSource(Get(entry, K_source))
    /\ IsStr(Get(entry, K_transform))
          => Get(leaf, K_transform) = Synonym(Get(entry, K_transform))
    /\ IsDict(Get(entry, K_match)) => Get(leaf, K_match) = Get(entry, K_match)
    /\ Get(entry, K_required) = Bool(TRUE) => Get(leaf, K_required) = Bool(TRUE)

\* C21: converting a legacy flat-dialect spec yields a normative spec whose
\* items.map has, for every entry with a string target, a leaf carrying the
\* entry's source, its transform under the canonical name, its match map
\* and its required flag, and whose defaults hold the entry's default at
\* the target for every entry with a non-null default.
C21_LegacyConversion ==
    pc = "converted" =>
        \A i \in 1..Len(Get(mapping_spec, K_mappings).v) :
            LET entry == Get(mapping_spec, K_mappings).v[i]
            IN (entry.t = "obj" /\ IsStr(Get(entry, K_target))) =>
                 /\ LeafCarries(Get(ItemsMap(roaster_mapping), Get(entry, K_target).v), entry)
                 /\ ~IsNone(Get(entry, K_default))
                       => Get(Get(roaster_mapping, K_defaults), Get(entry, K_target).v)
                            = Get(entry, K_default)

----------------------------------------------------------------------------
(* The endpoints POST /schemas/{id}/ingest and POST /jobs of app.py       *)
(* (SpecEndpoint)                                                          *)

K_targetSchema == <<"targetSchema">>

\* MappingSpec(...).dict(): the three fields of the request model
MappingSpecDict(target, mappings) ==
    Obj(<< <<K_targetSchema, target>>, <<K_mappings, mappings>>, <<K_defaults, Null>> >>)

\* the mapping of a request: none, the empty list the model defaults to,
\* and a nested tree
RequestMappings ==
    {Null,
     MappingSpecDict(SchemaIdName, List(<<>>)),
     MappingSpecDict(Null, Get(SpecStraight, K_mappings))}

\* MappingAgentOptions objects: enabled is a bool, maxIterations is None
\* or an int the model admits
RequestAgents ==
    {Null} \cup {[enabled |-> e, maxIterations |-> m] : e \in BOOLEAN,
                                                         m \in {Null, Num(1), Num(2)}}

\* MappingAgentOptions().dict(): the defaults of the request model
AgentDefaults(options) ==
    Obj(<< <<K_enabled, Bool(FALSE)>>, <<K_maxIterations, Null>> >>)

\* MappingAgentOptions.dict()
AgentDict(options) ==
    Obj(<< <<K_enabled, Bool(options.enabled)>>, <<K_maxIterations, options.maxIterations>> >>)

\* what the storage holds under the request's schema id or API key: no
\* schema, the schema, the schema with a default mapping, a schema with
\* another id
StoredSchemas == {"none", "same", "default", "other"}

Requests ==
    [endpoint : {"ingest", "jobs"},
     authorization : BOOLEAN,
     x_api_key : BOOLEAN,
     schema : StoredSchemas,
     mapping : RequestMappings,
     mappingAgent : RequestAgents]

\* the environment: the agent off and no model, the agent on with a model
EndpointEnvirons ==
    {[enabled |-> FALSE, max |-> Null, model |-> FALSE],
     [enabled |-> TRUE, max |-> Null, model |-> TRUE]}

InitEndpoint ==
    /\ pc = "request"
    /\ request \in {r \in Requests : r.endpoint = "jobs" => r.mapping # Null}
    /\ environ \in EndpointEnvirons
    /\ payload = PayloadItems
    /\ mapping_spec = Null
    /\ target_schema = Null
    /\ mapping_agent = Null
    /\ target_paths = <<>>
    /\ agent_options = NoOptions
    /\ current_mapping = Null
    /\ aliased = FALSE
    /\ iteration = 0
    /\ issues = NoIssues
    /\ invoke_count = 0
    /\ raw_texts = <<>>
    /\ jobs = <<>>
    /\ invocations = <<>>
    /\ ExecIdle
    /\ RepairIdle

\* `raise HTTPException(status_code=...)` before mapping preparation
RaiseHTTP(code) ==
    /\ pc' = "raised"
    /\ result' = [err |-> code, val |-> Null]
    /\ UNCHANGED <<mapping_spec, target_schema, mapping_agent>>

\* the arguments of the call of _prepare_roaster_mapping
CallPrepare(spec, tschema) ==
    /\ mapping_spec' = spec
    /\ target_schema' = tschema
    /\ mapping_agent' = IF request.mappingAgent # Null THEN AgentDict(request.mappingAgent)
                        ELSE Null
    /\ pc' = "call"
    /\ UNCHANGED result

\* `x or y`
Or(x, y) == IF Truthy(x) THEN x ELSE y

\* ingest_to_schema up to the call of _prepare_roaster_mapping
IngestToSchema ==
    /\ pc = "request"
    /\ request.endpoint = "ingest"
    /\ IF ~request.authorization /\ ~request.x_api_key
       THEN RaiseHTTP("HTTPException 401")
       ELSE IF request.schema \in {"none", "other"}
       THEN RaiseHTTP("HTTPException 404")
       ELSE LET spec == IF request.mapping = Null /\ request.schema = "default"
                        THEN SpecStraight ELSE request.mapping
            IN CallPrepare(spec,
                           Or(IF spec = Null THEN Null ELSE Get(spec, K_targetSchema),
                              SchemaIdName))
    /\ UNCHANGED <<payload, heap, root, target_paths, canonical_paths, environ, agent_options,
                   current_mapping, aliased, iteration, issues, invoke_count, raw_texts,
                   repairVars, request, jobs, invocations>>

\* create_ingestion_job up to the call of _prepare_roaster_mapping
CreateIngestionJob ==
    /\ pc = "request"
    /\ request.endpoint = "jobs"
    /\ IF ~request.authorization /\ ~request.x_api_key
       THEN RaiseHTTP("HTTPException 401")
       ELSE IF ~request.authorization /\ request.schema = "none"
       THEN RaiseHTTP("HTTPException 401")
       ELSE CallPrepare(request.mapping,
                        IF request.authorization
                        THEN Get(request.mapping, K_targetSchema)
                        ELSE Or(Get(request.mapping, K_targetSchema), SchemaIdName))
    /\ UNCHANGED <<payload, heap, root, target_paths, canonical_paths, environ, agent_options,
                   current_mapping, aliased, iteration, issues, invoke_count, raw_texts,
                   repairVars, request, jobs, invocations>>

\* the job create_job and update_job leave in the storage
CompletedJob(output) == [status |-> "completed", result |-> output]

\* both endpoints after _prepare_roaster_mapping has returned: repair,
\* validation, execution, create_job and update_job
RespondWithJob ==
    /\ pc = "prepared"
    /\ \E rep \in {RepairMappingSpec(roaster_mapping, Allowed(SeqToSet(target_paths)))} :
          /\ roaster_mapping' = rep.spec
          /\ repairs' = rep.repairs
          /\ mapping_spec' = IF aliased THEN rep.spec ELSE mapping_spec
          /\ IF ~Truthy(rep.spec)
             THEN /\ pc' = "raised"
                  /\ result' = [err |-> "HTTPException 400", val |-> Null]
                  /\ UNCHANGED <<validation_errors, payload, heap, root, canonical_paths, jobs>>
             ELSE \E errors \in {ValidateMappingSpec(rep.spec)} :
                  IF errors # <<>>
                  THEN /\ pc' = "raised"
                       /\ validation_errors' = errors
                       /\ result' = [err |-> "HTTPException 400", val |-> Null]
                       /\ UNCHANGED <<payload, heap, root, canonical_paths, jobs>>
                  ELSE \E loaded \in {Load(<<>>, payload)} :
                       \E r \in {Execute(loaded.heap, loaded.val, rep.spec,
                                         CanonicalPaths(target_paths))} :
                       /\ validation_errors' = errors
                       /\ canonical_paths' = CanonicalPaths(target_paths)
                       /\ heap' = r.heap
                       /\ root' = loaded.val
                       /\ payload' = Resolve(r.heap, loaded.val)
                       /\ result' = [err |-> r.err, val |-> r.val]
                       /\ pc' = IF r.err = "" THEN "responded" ELSE "raised"
                       /\ jobs' = IF r.err = ""
                                  THEN Append(jobs, CompletedJob(Resolve(r.heap, r.val)))
                                  ELSE jobs
    /\ UNCHANGED <<target_paths, target_schema, mapping_agent, environ, agent_options,
                   current_mapping, aliased, iteration, issues, invoke_count, raw_texts,
                   allowed_targets, request, invocations>>

NextEndpoint ==
    \/ IngestToSchema
    \/ CreateIngestionJob
    \/ PrepareRoasterMapping
    \/ GenerateMappingWithBedrock
    \/ Iterate
    \/ Refine
    \/ RespondWithJob

SpecEndpoint == InitEndpoint /\ [][NextEndpoint]_vars

\* C22: both endpoints pass the request's mappingAgent options, enabled
\* and maxIterations unchanged, to mapping preparation, and pass none when
\* the request has none; an agent enabled in the request is enabled in
\* preparation.
C22_EndpointsPassMappingAgent ==
    /\ (pc = "call") =>
          IF request.mappingAgent = Null THEN mapping_agent = Null
          ELSE /\ mapping_agent.t = "obj"
               /\ Get(mapping_agent, K_enabled) = Bool(request.mappingAgent.enabled)
               /\ Get(mapping_agent, K_maxIterations) = request.mappingAgent.maxIterations
    /\ (pc \notin {"request", "call", "raised"} /\ request.mappingAgent # Null)
          => (request.mappingAgent.enabled <=> agent_options.enabled)

\* the ingest endpoint has prepared the mapping with the agent the request
\* enabled although the environment leaves it off
C22_Witness ==
    /\ pc = "loop"
    /\ request.endpoint = "ingest"
    /\ request.mappingAgent = [enabled |-> TRUE, maxIterations |-> Num(2)]
    /\ ~environ.enabled
    /\ mapping_agent = AgentOn(Num(2))
    /\ agent_options = [enabled |-> TRUE, max_iterations |-> 2]

----------------------------------------------------------------------------
(* The targets Repair keeps and adds (SpecRepair) *)

\* the map block of the spec Repair is given
InputMap == Get(Get(Get(RepairedInput, K_mappings), K_items), K_map)

\* the normalised targets the entries of a map block map
MappedTargets(kvs) ==
    {NormalizeTargetKey(kvs[i][1]) : i \in {j \in 1..Len(kvs) : kvs[j][2].t = "obj"}}

IsNestedSpec(spec) ==
    spec.t = "obj" /\ HasKey(spec, K_path) /\ HasKey(spec, K_map) /\ Get(spec, K_map).t = "obj"

\* every allowed {path, map} entry keeps every target of its own map
NestedKept(kvs, repaired_map, allowed) ==
    \A i \in 1..Len(kvs) :
        (IsNestedSpec(kvs[i][2]) /\ NormalizeTargetKey(kvs[i][1]) \in allowed)
            => LET kept == Get(repaired_map, NormalizeTargetKey(kvs[i][1]))
               IN /\ IsNestedSpec(kept)
                  /\ KeySet(Get(kept, K_map)) = MappedTargets(Get(kvs[i][2], K_map).v)

\* C23: after Repair with a non-empty allowedTargets on a spec whose
\* mappings.items.map is an object, the keys of the map are the allowed
\* targets exactly: entries with another target are dropped, every allowed
\* target that was not mapped is {source: null}, and the map under a
\* {path, map} entry is not filtered.
C23_MapKeysAreAllowed ==
    [][(/\ pc = "input" /\ pc' = "repaired"
        /\ allowed_targets.given /\ allowed_targets.set # {}
        /\ ~IsNone(RepairedInput)
        /\ InputMap.t = "obj")
       => /\ KeySet(ItemsMap(roaster_mapping')) = allowed_targets.set
          /\ Len(ItemsMap(roaster_mapping').v) = Cardinality(allowed_targets.set)
          /\ \A target \in allowed_targets.set \ MappedTargets(InputMap.v) :
                Get(ItemsMap(roaster_mapping'), target) = Leaf(Null)
          /\ NestedKept(InputMap.v, ItemsMap(roaster_mapping'), allowed_targets.set)]_vars

\* an allowed target added with a null source next to a {path, map} entry
\* that kept a target outside the allowed set
C23_Witness ==
    /\ pc = "repaired"
    /\ allowed_targets = Allowed({<<"name">>, <<"tags">>})
    /\ roaster_mapping.t = "obj"
    /\ KeySet(ItemsMap(roaster_mapping)) = {<<"name">>, <<"tags">>}
    /\ Get(ItemsMap(roaster_mapping), <<"name">>) = Leaf(Null)
    /\ IsNestedSpec(Get(ItemsMap(roaster_mapping), <<"tags">>))
    /\ KeySet(Get(Get(ItemsMap(roaster_mapping), <<"tags">>), K_map)) = {<<"sku">>}
    /\ Get(Get(roaster_mapping, K_broadcast), <<"sku">>) = Leaf(FeedSource)

----------------------------------------------------------------------------
(* Array live values in _evaluate_path (SpecPath) *)

\* one segment as the description states it: an object gives its value
\* under the key, an array is picked as itself by an empty key only, any
\* other live value is skipped
RECURSIVE DescribedValues(_, _, _, _)
DescribedValues(h, current, key, is_array) ==
    IF current = <<>> THEN <<>>
    ELSE LET value == Head(current)
             candidate == IF IsRef(value) THEN HGet(h, value, key)
                          ELSE IF IsList(value) /\ key = <<>> THEN value
                          ELSE Null
             picked == IF IsNone(candidate) THEN <<>>
                       ELSE IF is_array
                       THEN (IF IsList(candidate) THEN candidate.v ELSE <<>>)
                       ELSE <<candidate>>
         IN picked \o DescribedValues(h, Tail(current), key, is_array)

RECURSIVE DescribedWalk(_, _, _)
DescribedWalk(h, current, tokens) ==
    IF tokens = <<>> THEN current
    ELSE LET token == Head(tokens)
             is_array == EndsWith(token, BR) \/ EndsWith(token, BRSTAR)
             key == IF EndsWith(token, BR) THEN DropLast(token, 2)
                    ELSE IF EndsWith(token, BRSTAR) THEN DropLast(token, 3)
                    ELSE token
         IN DescribedWalk(h, DescribedValues(h, current, key, is_array), Tail(tokens))

DescribedPath(h, rootv, path) ==
    LET p == IF StartsWith(path, DOLLARDOT) THEN Drop(path, 2)
             ELSE IF StartsWith(path, DOLLAR) THEN Drop(path, 1)
             ELSE path
    IN IF p = <<>> THEN List(<<rootv>>)
       ELSE List(DescribedWalk(h, <<rootv>>, SplitDots(p)))

\* C24: a live value that is an array is picked, as itself, only by a
\* segment whose key is empty; under a segment with a non-empty key it is
\* skipped and adds nothing to the matches.
C24_ArrayNeedsEmptyKey ==
    pc = "evaluated" => result.val = DescribedPath(heap, root, target_paths[1])

----------------------------------------------------------------------------
(* Arrays that hold a primitive (SpecExtract) *)

\* the elements of an array the extractor looks at
Inspected(xs) == SubSeq(xs, 1, Min(Len(xs), MaxItemsPerArray))

IsPrimitive(x) == x.t \notin {"null", "obj", "list"}

\* [prefix, items] for every array the extraction reaches in x: the path
\* of the array's elements and the elements inspected
RECURSIVE ArraysIn(_, _)
ArraysIn(x, prefix) ==
    IF x.t = "obj"
    THEN UNION {ArraysIn(x.v[i][2], prefix \o <<".">> \o x.v[i][1]) : i \in 1..Len(x.v)}
    ELSE IF x.t = "list"
    THEN {[prefix |-> prefix \o BR, items |-> Inspected(x.v)]}
         \cup UNION {ArraysIn(Inspected(x.v)[i], prefix \o BR) : i \in 1..Len(Inspected(x.v))}
    ELSE {}

FirstPrimitive(items) ==
    items[CHOOSE i \in 1..Len(items) :
            IsPrimitive(items[i]) /\ \A j \in 1..(i - 1) : ~IsPrimitive(items[j])]

\* C25: for every array with a non-null primitive among its inspected
\* elements the fingerprint maps `parent[]` to `array<T>`, T the type of
\* the first primitive element, whatever objects and arrays the array
\* holds as well and in whatever order.
C25_PrimitiveArrayType ==
    (pc \in {"extracted", "extracted again"}) =>
        \A array \in ArraysIn(payload, DOLLAR) :
            (\E i \in 1..Len(array.items) : IsPrimitive(array.items[i]))
                => Get(result.val, array.prefix)
                     = Str(ArrayOf(DescribePrimitive(FirstPrimitive(array.items))))

----------------------------------------------------------------------------
(* Leaves with a match map (SpecTransform) *)

\* the value of a leaf before its match map is applied: the first non-null
\* matches of its source paths, transformed; None when there are none
Evaluated(h, source, spec) ==
    LET sources == Get(spec, K_source)
        value == FirstValue(h, source, IF IsStr(sources) THEN <<sources>> ELSE sources.v)
    IN IF IsNone(value) THEN Null
       ELSE IF Truthy(Get(spec, K_transform))
       THEN ApplyTransform(h, value, Get(spec, K_transform))
       ELSE value

\* match[str(v)] when that key exists, match.default otherwise and for None
Matched(val, match_map) ==
    IF ~IsNone(val) /\ HasKey(match_map, PyStr(val)) THEN Get(match_map, PyStr(val))
    ELSE Get(match_map, K_default)

\* C26: for every leaf with a match map each evaluated value v is replaced
\* by match[str(v)] when that key exists and by match.default otherwise,
\* element by element over a list; a null input maps to match.default too,
\* also when the source paths of the leaf yield no non-null value.
C26_MatchReplacesValues ==
    (pc = "field" /\ Get(mapping_spec, K_match).t = "obj"
        /\ ~IsNone(Get(mapping_spec, K_source))) =>
        LET match_map == Get(mapping_spec, K_match)
            value == Evaluated(heap, root, mapping_spec)
        IN result.val = IF IsList(value)
                        THEN List([i \in 1..Len(value.v) |-> Matched(value.v[i], match_map)])
                        ELSE Matched(value, match_map)

----------------------------------------------------------------------------
(* SpecPrecedence: execute for specs whose item map, broadcast block and   *)
(* defaults write the same target.                                         *)

PrecTargets == {<<"v">>, <<"a", ".", "v">>}

PrecMapped == {Null, Bool(FALSE), Num(0), Str(<<>>), S_A}

PrecBroadcast == {Null, Bool(FALSE), S_B}

S_D == Str(<<"D">>)

\* a payload with the value b at its root and the value m in its first item;
\* the second item has no key m
PrecPayload(b, m) ==
    Obj(<< << <<"b">>, b>>,
           << <<"items">>, List(<< Obj(<< << <<"m">>, m>> >>), EmptyObj >>)>> >>)

PrecLeaves == {Src(<<"$", ".", "m">>), Put(Src(<<"$", ".", "m">>), K_required, Bool(TRUE))}

PrecSpecs ==
    { Spec4(P(<<"$", ".", "items", "[", "]">>), Obj(<< <<t, leaf>> >>), b, d) :
        t \in PrecTargets, leaf \in PrecLeaves,
        b \in {EmptyObj} \cup {Obj(<< <<u, Src(<<"$", ".", "b">>)>> >>) : u \in PrecTargets},
        d \in {EmptyObj} \cup {Obj(<< <<u, x>> >>) : u \in PrecTargets, x \in {Null, S_D}} }

InitPrecedence ==
    /\ AgentIdle
    /\ RepairIdle
    /\ pc = "new"
    /\ payload \in {PrecPayload(b, m) : b \in PrecBroadcast, m \in PrecMapped}
    /\ mapping_spec \in {s \in PrecSpecs : ValidateMappingSpec(s) = <<>>}
    /\ target_paths \in {<<>>, << <<"v">> >>}
    /\ heap = Load(<<>>, payload).heap
    /\ root = Load(<<>>, payload).val
    /\ canonical_paths = <<>>
    /\ result = NoResult
    /\ ServiceIdle

SpecPrecedence == InitPrecedence /\ [][NextExec]_vars

\* the target the item map of the spec writes, and its leaf
MapTarget == Get(Get(Get(mapping_spec, K_mappings), K_items), K_map).v[1][1]

MapLeaf == Get(Get(Get(mapping_spec, K_mappings), K_items), K_map).v[1][2]

\* what the map leaf yields for the i-th item of the payload
MappedValue(i) == EvaluateField(heap, HGet(heap, root, K_items).v[i], MapLeaf)

\* what the broadcast block yields for the target; None without an entry
BroadcastYield(target) ==
    IF HasKey(Get(mapping_spec, K_broadcast), target)
    THEN EvaluateField(heap, root, Get(Get(mapping_spec, K_broadcast), target))
    ELSE Null

\* the defaults entry of the target; None without one
DefaultEntry(target) == Get(Get(mapping_spec, K_defaults), target)

\* mapped over broadcast over default
Precedence(mapped, broadcast, default) ==
    IF ~IsNone(mapped) THEN mapped
    ELSE IF ~IsNone(broadcast) THEN broadcast
    ELSE default

\* the statement of C27 without the exception for required leaves: every
\* returned item holds at the target the mapped value when that is non-null,
\* else the broadcast value when that is non-null, else the default.
C27_MappedBroadcastDefault ==
    Returned =>
        \A i \in 1..Len(ReturnedItems) :
            GetNested(heap, ReturnedItems[i], MapTarget)
                = Precedence(MappedValue(i), BroadcastYield(MapTarget), DefaultEntry(MapTarget))

\* C27: for every returned item and target a non-null value of the item map
\* takes precedence over the broadcast value of the target, which takes
\* precedence over the defaults entry; false, 0 and the empty string count
\* as non-null.  A leaf marked required that yields null is assigned too:
\* its null replaces the broadcast value, and the default then fills it.
C27_PrecedenceUnlessRequiredNull ==
    Returned =>
        \A i \in 1..Len(ReturnedItems) :
            GetNested(heap, ReturnedItems[i], MapTarget)
                = IF IsNone(MappedValue(i)) /\ Truthy(Get(MapLeaf, K_required))
                  THEN DefaultEntry(MapTarget)
                  ELSE Precedence(MappedValue(i), BroadcastYield(MapTarget),
                                  DefaultEntry(MapTarget))

\* one call in which the first item keeps its mapped false over a broadcast
\* value and a default, and the second, without a mapped value, keeps the
\* broadcast value over the default
C27_Witness ==
    /\ Returned
    /\ ~Truthy(Get(MapLeaf, K_required))
    /\ MappedValue(1) = Bool(FALSE)
    /\ BroadcastYield(MapTarget) = S_B
    /\ DefaultEntry(MapTarget) = S_D
    /\ GetNested(heap, ReturnedItems[1], MapTarget) = Bool(FALSE)
    /\ GetNested(heap, ReturnedItems[2], MapTarget) = S_B

----------------------------------------------------------------------------
(* SpecAccepted: execute for specs the validator accepts whose leaves hold *)
(* what the validator does not look at: the elements of a source list, the *)
(* match map, the leaves of the broadcast block.                           *)

AcceptedLeaves ==
    { Src(<<"$", ".", "id">>),
      Leaf(List(<< Str(<<"$", ".", "sku">>), Num(5) >>)),
      Put(Src(<<"$", ".", "name">>), K_match, Obj(<< <<K_default, S_A>> >>)),
      Put(Src(<<"$", ".", "name">>), K_match, Str(<<"x">>)) }

AcceptedBroadcasts ==
    { EmptyObj,
      Obj(<< << <<"feed">>, Src(<<"$", ".", "meta", ".", "source">>)>> >>),
      Obj(<< << <<"feed">>, Leaf(Num(5))>> >>) }

AcceptedSpecs ==
    { Spec4(p, Obj(<< << <<"id">>, leaf>> >>), b, d) :
        p \in ExecItemPaths, leaf \in AcceptedLeaves, b \in AcceptedBroadcasts,
        d \in ExecDefaults }

InitAccepted ==
    /\ AgentIdle
    /\ RepairIdle
    /\ pc = "new"
    /\ payload \in ExecPayloads
    /\ mapping_spec \in {s \in AcceptedSpecs : ValidateMappingSpec(s) = <<>>}
    /\ target_paths \in {<<>>, << <<"items", ".", "id">>, <<"items", ".", "name">> >>}
    /\ heap = Load(<<>>, payload).heap
    /\ root = Load(<<>>, payload).val
    /\ canonical_paths = <<>>
    /\ result = NoResult
    /\ ServiceIdle

SpecAccepted == InitAccepted /\ [][NextExec]_vars

\* C28: for every spec the validator accepts and every payload, execute
\* completes and returns a result object; it raises nothing.
C28_AcceptedSpecExecutes ==
    (pc = "done") => (result.err = "" /\ IsRef(result.val))

----------------------------------------------------------------------------
(* The Auto-Mapper's spec executed by execute_mapping (Spec) *)

ITEMSDOT == <<"items", ".">>

\* C29: when no spec is supplied and no oracle is available, for a payload
\* {items: [...]} and every target path items.f of the schema, execute_mapping
\* returns a result in which every output item whose source item has the
\* field f holds the value of f at the target (at items.f, or at f, the path
\* as the executor normalises it).
C29_AutoMappedFieldEmitted ==
    (/\ pc = "done"
     /\ mapping_spec = Null
     /\ ~environ.model
     /\ HasKey(payload, K_items))
    => /\ result.err = ""
       /\ \A i \in 1..Len(Get(payload, K_items).v) : \A j \in 1..Len(target_paths) :
             (/\ StartsWith(target_paths[j], ITEMSDOT)
              /\ HasKey(Get(payload, K_items).v[i], Drop(target_paths[j], 2)))
             => \/ GetNested(heap, ReturnedItems[i], target_paths[j])
                     = Get(Get(payload, K_items).v[i], Drop(target_paths[j], 2))
                \/ GetNested(heap, ReturnedItems[i], Drop(target_paths[j], 2))
                     = Get(Get(payload, K_items).v[i], Drop(target_paths[j], 2))

----------------------------------------------------------------------------
(* SpecJobs: the Lambda entry point.  HTTP events create jobs and invoke   *)
(* the function asynchronously; the worker handles one process_job event   *)
(* at a time.  Requests carry no Idempotency-Key header.                   *)

MaxJobs == 2

\* the schema ids the storage holds; the schema has no default mapping and
\* the definition SchemaIdName
StoredSchemaIds == {"known"}

JobEvent(endpoint, authorization, x_api_key, mappingId, data, mapping, mappingAgent) ==
    [endpoint |-> endpoint, authorization |-> authorization, x_api_key |-> x_api_key,
     mappingId |-> mappingId, data |-> data, mapping |-> mapping,
     mappingAgent |-> mappingAgent]

\* POST /schemas/{id}/ingest and POST /jobs events; data tells whether the
\* body has a "data" member (the payload PayloadStraight)
JobEvents ==
    { JobEvent("jobs", TRUE, FALSE, "unknown", TRUE, SpecStraight, Null),
      JobEvent("jobs", TRUE, FALSE, "known", TRUE, SpecStraight, Null),
      JobEvent("jobs", FALSE, TRUE, "known", TRUE, SpecStraight, Null),
      JobEvent("jobs", TRUE, FALSE, "known", FALSE, Null, Null),
      JobEvent("ingest", TRUE, FALSE, "known", TRUE, Null, AgentOn(Num(1))),
      JobEvent("ingest", FALSE, TRUE, "known", TRUE, SpecNoArray, Str(<<"on">>)),
      JobEvent("ingest", FALSE, FALSE, "known", TRUE, Null, Null),
      JobEvent("ingest", TRUE, FALSE, "unknown", TRUE, Null, Null),
      JobEvent("ingest", TRUE, FALSE, "known", FALSE, Null, Null) }

\* the environment of the function: BEDROCK_MODEL_ID and
\* AWS_LAMBDA_FUNCTION_NAME set or not
JobEnvirons ==
    { [enabled |-> FALSE, max |-> Null, model |-> m, function |-> f] :
        m \in BOOLEAN, f \in BOOLEAN }

InitJobs ==
    /\ pc = "idle"
    /\ request \in { [events |-> es, responses |-> <<>>] :
                        es \in {<<e>> : e \in JobEvents}
                               \cup {<<e1, e2>> : e1 \in JobEvents, e2 \in JobEvents} }
    /\ environ \in JobEnvirons
    /\ jobs = <<>>
    /\ invocations = <<>>
    /\ payload = Null
    /\ mapping_spec = Null
    /\ target_schema = Null
    /\ mapping_agent = Null
    /\ target_paths = <<>>
    /\ agent_options = NoOptions
    /\ current_mapping = Null
    /\ aliased = FALSE
    /\ iteration = 0
    /\ issues = NoIssues
    /\ invoke_count = 0
    /\ raw_texts = <<>>
    /\ ExecIdle
    /\ RepairIdle

\* what the pipeline variables of the worker are left at by the HTTP handlers
workerVars == <<pc, execVarsButSpec, mapping_spec, agentVars, repairVars>>

\* storage.create_job(status="processing", metrics={...})
ProcessingJob(event, tschema) ==
    [mapping_id |-> event.mappingId, status |-> "processing", issues |-> <<>>,
     mapping_spec |-> event.mapping, target_schema |-> tschema,
     mapping_agent |-> IF event.mappingAgent.t = "obj" THEN event.mappingAgent ELSE Null,
     result |-> FALSE]

\* storage.update_job(status="failed", issues=[{"field": "async", ...}])
FailedJob(job) == [job EXCEPT !.status = "failed", !.issues = <<"async">>]

\* storage.update_job(status="completed", result_s3_key=..., ...)
StoredJob(job) == [job EXCEPT !.status = "completed", !.result = TRUE]

\* a handler returns _response(code, ...) for the first pending event
Respond(code) == request' = [events |-> Tail(request.events),
                             responses |-> Append(request.responses, code)]

\* create_job, then `try: _invoke_async_job(...) except (BotoCoreError,
\* ClientError, RuntimeError)`: outcome is what _invoke_async_job did
CreateAndInvoke(job, outcome) ==
    IF outcome = "invoked"
    THEN /\ jobs' = Append(jobs, job)
         /\ invocations' = Append(invocations, [action |-> "process_job",
                                                jobId |-> Len(jobs) + 1])
         /\ Respond(202)
    ELSE /\ jobs' = Append(jobs, FailedJob(job))
         /\ UNCHANGED invocations
         /\ Respond(500)

\* what _invoke_async_job can do: RuntimeError without a function name,
\* else the invocation is queued or the client raises
InvokeOutcomes == IF environ.function THEN {"invoked", "ClientError"} ELSE {"RuntimeError"}

\* the "targetSchema" member of the mapping of the body, when it is a dict
TargetSchemaOf(mapping) == IF mapping.t = "obj" THEN Get(mapping, K_targetSchema) ELSE Null

\* _handle_ingest_schema
HandleIngestSchema ==
    /\ request.events # <<>>
    /\ Head(request.events).endpoint = "ingest"
    /\ Len(jobs) < MaxJobs
    /\ \E event \in {Head(request.events)} :
          IF ~((event.authorization \/ event.x_api_key)
                  /\ event.mappingId \in StoredSchemaIds)
          THEN Respond(401) /\ UNCHANGED <<jobs, invocations>>
          ELSE IF ~event.data
          THEN Respond(400) /\ UNCHANGED <<jobs, invocations>>
          ELSE \E outcome \in InvokeOutcomes :
                  CreateAndInvoke(ProcessingJob(event, Or(TargetSchemaOf(event.mapping),
                                                          SchemaIdName)),
                                  outcome)
    /\ UNCHANGED workerVars

\* _handle_create_job
HandleCreateJob ==
    /\ request.events # <<>>
    /\ Head(request.events).endpoint = "jobs"
    /\ Len(jobs) < MaxJobs
    /\ \E event \in {Head(request.events)} :
          IF ~event.authorization
          THEN Respond(401) /\ UNCHANGED <<jobs, invocations>>
          ELSE IF ~event.data
          THEN Respond(400) /\ UNCHANGED <<jobs, invocations>>
          ELSE \E outcome \in InvokeOutcomes :
                  CreateAndInvoke(
                      ProcessingJob(event,
                                    IF TargetSchemaOf(event.mapping) = Null
                                          /\ event.mappingId \in StoredSchemaIds
                                    THEN SchemaIdName
                                    ELSE TargetSchemaOf(event.mapping)),
                      outcome)
    /\ UNCHANGED workerVars

\* the job the worker is processing: that of the oldest queued event
CurrentJob == Head(invocations).jobId

\* handler for a process_job event, and _process_job up to the call of
\* execute_mapping: RuntimeError when the job or its schema is not found,
\* caught by the handler's `except Exception`
ReceiveProcessJob ==
    /\ pc = "idle"
    /\ invocations # <<>>
    /\ IF CurrentJob \notin 1..Len(jobs) \/ jobs[CurrentJob].mapping_id \notin StoredSchemaIds
       THEN /\ pc' = "raised"
            /\ result' = [err |-> "RuntimeError", val |-> Null]
            /\ UNCHANGED <<payload, mapping_spec, target_schema, mapping_agent>>
       ELSE /\ pc' = "call"
            /\ result' = NoResult
            /\ payload' = PayloadStraight
            /\ mapping_spec' = jobs[CurrentJob].mapping_spec
            /\ target_schema' = Or(jobs[CurrentJob].target_schema, SchemaIdName)
            /\ mapping_agent' = jobs[CurrentJob].mapping_agent
    /\ heap' = <<>>
    /\ root' = Null
    /\ canonical_paths' = <<>>
    /\ target_paths' = <<>>
    /\ agent_options' = NoOptions
    /\ current_mapping' = Null
    /\ aliased' = FALSE
    /\ iteration' = 0
    /\ issues' = NoIssues
    /\ invoke_count' = 0
    /\ raw_texts' = <<>>
    /\ roaster_mapping' = Null
    /\ repairs' = <<>>
    /\ validation_errors' = <<>>
    /\ allowed_targets' = NoTargets
    /\ UNCHANGED <<environ, serviceVars>>

\* _process_job after execute_mapping has returned: store_result_payload
\* and update_job(status="completed"); the handler returns 200
StoreResult ==
    /\ pc = "done"
    /\ pc' = "idle"
    /\ jobs' = [jobs EXCEPT ![CurrentJob] = StoredJob(jobs[CurrentJob])]
    /\ invocations' = Tail(invocations)
    /\ UNCHANGED <<execVarsButSpec, mapping_spec, agentVars, repairVars, request>>

\* `except Exception` of handler: the error is logged and a 500 response
\* returned; nothing is written to the storage
UnhandledError ==
    /\ pc = "raised"
    /\ pc' = "idle"
    /\ invocations' = Tail(invocations)
    /\ UNCHANGED <<execVarsButSpec, mapping_spec, agentVars, repairVars, request, jobs>>

NextJobs ==
    \/ HandleIngestSchema
    \/ HandleCreateJob
    \/ ReceiveProcessJob
    \/ PrepareRoasterMapping
    \/ GenerateMappingWithBedrock
    \/ Iterate
    \/ Refine
    \/ ExecuteMapping
    \/ StoreResult
    \/ UnhandledError

SpecJobs == InitJobs /\ [][NextJobs]_vars

\* an event is queued for the worker or the worker is handling one
WorkPending == pc # "idle" \/ invocations # <<>>

WorkerPositions == {"idle", "call", "generate", "loop", "invoke", "prepared", "done", "raised"}

\* the worker moves on: each of ReceiveProcessJob, PrepareRoasterMapping,
\* GenerateMappingWithBedrock, Iterate, Refine, ExecuteMapping, StoreResult
\* and UnhandledError changes pc, and the HTTP handlers leave it alone
WorkerMoves == WorkPending /\ \E position \in WorkerPositions \ {pc} : pc' = position

\* every queued process_job event is delivered and every invocation of the
\* handler runs to its end
SpecJobsFair == SpecJobs /\ WF_pc(WorkerMoves)

\* with work pending the worker has a step to take, and only the worker
\* changes pc
WorkerStepsArePcSteps ==
    [][/\ (pc' # pc) <=> (UNCHANGED request)
       /\ (pc' # pc) => WorkPending]_vars

\* C30: every job created in status processing by the ingest or create-job
\* handler eventually reaches status completed or failed.
C30_JobsLeaveProcessing ==
    \A n \in 1..MaxJobs :
        (Len(jobs) >= n /\ jobs[n].status = "processing")
            ~> (Len(jobs) >= n /\ jobs[n].status \in {"completed", "failed"})

====
